---------------------------- MODULE Spec2Model ----------------------------
(***************************************************************************)
(* Triangle-lattice colouring search (potatriangle).                       *)
(*                                                                         *)
(* The repository holds two builds of the application component App:       *)
(*   "part_000"  src/unnamed/part_000 : exhaustive + randomized search     *)
(*                                      with a result list                 *)
(*   "App"       src/src/App.tsx      : a single randomized search that    *)
(*                                      stops at the first passing         *)
(*                                      candidate or at maxAttempts        *)
(* The variable build selects which of the two is running.                 *)
(*                                                                         *)
(* Numbers: the code computes determinants in IEEE doubles.  The model     *)
(* computes the same elimination over exact rationals <<num, den>>; the    *)
(* two thresholds 1e-10 and 1e-4 are compared exactly.                     *)
(***************************************************************************)
EXTENDS Integers, Sequences, FiniteSets, TLC

(***************************************************************************)
(* Bounds of the model.                                                    *)
(***************************************************************************)
\* number of editing operations (click, clear, save, import, randomize, apply a
\* result, clear the results) in one behaviour
MaxEdits == 2
\* number of searches started in one behaviour
MaxSearches == 2
\* number of chunks one randomized session of part_000 may run
MaxRandomChunks == 2
\* a randomized session of part_000 is followed while it holds fewer results
MaxFound == 1
\* candidates per chunk of exhaustiveStep: 1000 in the code, scaled down
ExhaustiveBatchSize == 10
\* candidates per chunk of the two searchStep: 1000 in the code, scaled down
BatchSize == 2
\* attempt limit of the App build: 100000 in the code, scaled down
maxAttempts == 4

(***************************************************************************)
(* Sequence helpers.                                                       *)
(***************************************************************************)
Range(s) == {s[i] : i \in DOMAIN s}

SelectIdx(s, P(_)) ==
  LET F[i \in 0..Len(s)] ==
        IF i = 0 THEN <<>>
        ELSE IF P(i) THEN Append(F[i - 1], s[i]) ELSE F[i - 1]
  IN F[Len(s)]

Abs(v) == IF v < 0 THEN -v ELSE v

RECURSIVE Pow(_, _)
Pow(b, e) == IF e = 0 THEN 1 ELSE b * Pow(b, e - 1)

(***************************************************************************)
(* Colours: 0 transparent, 1 white, 2 black, 3 gray.                       *)
(***************************************************************************)
COLOR_NAMES == <<"transparent", "white", "black", "gray">>

\* the distance of the two colour numbers in place of the cyclic difference
relativeColorNumDistance(a, b) == Abs(b - a)

\* relativeColorNum(a, b) = ((b - 1) - (a - 1) + 3) % 3
relativeColorNum(a, b) == (((b - 1) - (a - 1)) + 3) % 3

(***************************************************************************)
(* Cells.  A TriangleCoord is a record [x, y, isUp]; a map key is the      *)
(* string "x,y,u" / "x,y,d", modelled as the tuple <<x, y, "u"|"d">>.      *)
(***************************************************************************)
getKey(x, y, isUp) == <<x, y, IF isUp THEN "u" ELSE "d">>

parseKey(key) == [x |-> key[1], y |-> key[2], isUp |-> (key[3] = "u")]

\* the offsets of the upward case used for a downward cell too
areAdjacentUpRule(a, b) ==
  LET dx == b.x - a.x
      dy == b.y - a.y
  IN /\ a.isUp # b.isUp
     /\ \/ (dx = -1 /\ dy = 0)
        \/ (dx = 1 /\ dy = 0)
        \/ (dx = 0 /\ dy = -1)

areAdjacent(a, b) ==
  LET dx == b.x - a.x
      dy == b.y - a.y
  IN IF a.isUp
       THEN /\ ~b.isUp
            /\ \/ (dx = -1 /\ dy = 0)
               \/ (dx = 1 /\ dy = 0)
               \/ (dx = 0 /\ dy = -1)
       ELSE /\ b.isUp
            /\ \/ (dx = -1 /\ dy = 0)
               \/ (dx = 1 /\ dy = 0)
               \/ (dx = 0 /\ dy = 1)

(***************************************************************************)
(* Map<string, Color>: a JavaScript Map iterates in insertion order, so a  *)
(* map is a sequence of entries [key, color] with pairwise distinct keys.  *)
(***************************************************************************)
MapKeys(m) == [i \in DOMAIN m |-> m[i].key]

MapHas(m, k) == \E i \in DOMAIN m : m[i].key = k

\* Map.get of a key the map has; a key it lacks gives undefined, which the
\* callers test with MapHas
MapGet(m, k) == m[CHOOSE i \in DOMAIN m : m[i].key = k].color

\* colorMap.get(k) === color
MapGetIs(m, k, color) == MapHas(m, k) /\ MapGet(m, k) = color

\* Map.set: an existing key keeps its position, a new key is appended
MapSet(m, k, c) ==
  IF MapHas(m, k)
    THEN [i \in DOMAIN m |-> IF m[i].key = k THEN [key |-> k, color |-> c] ELSE m[i]]
    ELSE Append(m, [key |-> k, color |-> c])

MapDelete(m, k) == SelectSeq(m, LAMBDA e : e.key # k)

MapSize(m) == Len(m)

(***************************************************************************)
(* The cells of the model: three triangles of the canvas in a row,         *)
(* isUp = ((x + y) % 2 = 0), and every map that colours some of them.      *)
(***************************************************************************)
CellA == [x |-> -1, y |-> 0, isUp |-> FALSE]
CellB == [x |-> 0, y |-> 0, isUp |-> TRUE]
CellC == [x |-> 1, y |-> 0, isUp |-> FALSE]

Cells == {CellA, CellB, CellC}

RECURSIVE Orderings(_)
Orderings(S) ==
  IF S = {} THEN {<<>>}
  ELSE UNION {{<<x>> \o p : p \in Orderings(S \ {x})} : x \in S}

TabledMaps ==
  UNION {UNION {{[i \in DOMAIN p |->
                    [key |-> getKey(p[i].x, p[i].y, p[i].isUp), color |-> f[i]]]
                  : f \in [DOMAIN p -> 1..3]}
               : p \in Orderings(K)}
        : K \in SUBSET Cells}

(***************************************************************************)
(* Exact rationals <<n, d>>, d > 0, in lowest terms.                       *)
(***************************************************************************)
RECURSIVE GCD(_, _)
GCD(a, b) == IF b = 0 THEN a ELSE GCD(b, a % b)

Norm(n, d) ==
  LET s == IF d < 0 THEN -1 ELSE 1
      g == GCD(Abs(n), Abs(d))
  IN <<(s * n) \div g, (s * d) \div g>>

RInt(k) == <<k, 1>>
RMul(p, q) == Norm(p[1] * q[1], p[2] * q[2])
RDiv(p, q) == Norm(p[1] * q[2], p[2] * q[1])
RSub(p, q) == Norm(p[1] * q[2] - q[1] * p[2], p[2] * q[2])
RNeg(p) == <<-p[1], p[2]>>
RAbs(p) == <<Abs(p[1]), p[2]>>
RGreater(p, q) == p[1] * q[2] > q[1] * p[2]

\* Math.abs(v) < 1e-10, without leaving 32-bit integers
BelowPivotEps(p) == Abs(p[1]) <= (((p[2] - 1) \div 100000) \div 100000)

\* Math.abs(v) > 0.0001
AboveDetEps(p) == Abs(p[1]) * 10000 > p[2]


(***************************************************************************)
(* determinant: Gaussian elimination with partial pivoting.  A matrix is   *)
(* a sequence of rows of rationals.                                        *)
(***************************************************************************)
\* for (k = i + 1; k < n; k++) if (|m[k][i]| > |m[maxRow][i]|) maxRow = k
RECURSIVE PivotRow(_, _, _, _, _)
PivotRow(m, i, k, maxRow, n) ==
  IF k > n THEN maxRow
  ELSE PivotRow(m, i, k + 1,
                IF RGreater(RAbs(m[k][i]), RAbs(m[maxRow][i])) THEN k ELSE maxRow,
                n)

SwapRows(m, i, r) ==
  [k \in DOMAIN m |-> IF k = i THEN m[r] ELSE IF k = r THEN m[i] ELSE m[k]]

\* rows below the pivot row i: m[k][j] -= (m[k][i] / m[i][i]) * m[i][j], j >= i
Eliminate(m, i, n) ==
  [k \in 1..n |->
     IF k > i
       THEN LET factor == RDiv(m[k][i], m[i][i])
            IN [j \in 1..n |->
                  IF j >= i THEN RSub(m[k][j], RMul(factor, m[i][j]))
                  ELSE m[k][j]]
       ELSE m[k]]

RECURSIVE DetLoop(_, _, _, _)
DetLoop(m, det, i, n) ==
  IF i > n THEN det
  ELSE LET maxRow == PivotRow(m, i, i + 1, i, n)
       IN IF BelowPivotEps(m[maxRow][i]) THEN RInt(0)
          ELSE LET m1 == IF maxRow # i THEN SwapRows(m, i, maxRow) ELSE m
                   d1 == IF maxRow # i THEN RMul(det, RInt(-1)) ELSE det
                   d2 == RMul(d1, m1[i][i])
               IN DetLoop(Eliminate(m1, i, n), d2, i + 1, n)

determinant(matrix) ==
  LET n == Len(matrix)
  IN IF n = 0 THEN RInt(1)
     ELSE IF n = 1 THEN matrix[1][1]
     ELSE DetLoop(matrix, RInt(1), 1, n)

(***************************************************************************)
(* computeMinorDets: the signed matrix over the coloured cells, in the     *)
(* map's iteration order, and its principal minors.                        *)
(***************************************************************************)
ColoredTriangles(colorMap) ==
  LET kept == SelectSeq(colorMap, LAMBDA e : e.color # 0)
  IN [i \in DOMAIN kept |-> [coord |-> parseKey(kept[i].key), color |-> kept[i].color]]

\* the diagonal accumulated on the neighbour's row: mat[j][j] += rel
SignedMatrixOnNeighbourRow(ct) ==
  LET n == Len(ct)
      Rel(i, j) == IF i # j /\ areAdjacent(ct[i].coord, ct[j].coord)
                     THEN relativeColorNum(ct[i].color, ct[j].color)
                     ELSE 0
      RECURSIVE ColSum(_, _)
      ColSum(i, j) == IF j = 0 THEN 0 ELSE Rel(j, i) + ColSum(i, j - 1)
  IN [i \in 1..n |-> [j \in 1..n |-> IF i = j THEN ColSum(i, n) ELSE -Rel(i, j)]]

\* mat[i][j] = -rel and mat[i][i] += rel for every adjacent pair i # j
SignedMatrix(ct) ==
  LET n == Len(ct)
      Rel(i, j) == IF i # j /\ areAdjacent(ct[i].coord, ct[j].coord)
                     THEN relativeColorNum(ct[i].color, ct[j].color)
                     ELSE 0
      RECURSIVE RowSum(_, _)
      RowSum(i, j) == IF j = 0 THEN 0 ELSE Rel(i, j) + RowSum(i, j - 1)
  IN [i \in 1..n |-> [j \in 1..n |-> IF i = j THEN RowSum(i, n) ELSE -Rel(i, j)]]

\* row and column i kept and the last ones deleted in their place
MinorOfKeeping(mat, i) ==
  LET n == Len(mat)
      d == IF i = n THEN 1 ELSE n
      rows == SelectIdx(mat, LAMBDA ri : ri # d)
  IN [r \in DOMAIN rows |->
        LET row == rows[r]
            cut == SelectIdx(row, LAMBDA ci : ci # d)
        IN [c \in DOMAIN cut |-> RInt(cut[c])]]

\* mat.filter((_, ri) => ri !== i).map(row => row.filter((_, ci) => ci !== i))
MinorOf(mat, i) ==
  LET rows == SelectIdx(mat, LAMBDA ri : ri # i)
  IN [r \in DOMAIN rows |->
        LET row == rows[r]
            cut == SelectIdx(row, LAMBDA ci : ci # i)
        IN [c \in DOMAIN cut |-> RInt(cut[c])]]

\* computeMinorDets without the return for n <= 1
MinorDetsOfAnySize(colorMap) ==
  LET ct == ColoredTriangles(colorMap)
      n == Len(ct)
      mat == SignedMatrix(ct)
  IN [i \in 1..n |-> [i |-> i - 1, det |-> determinant(MinorOf(mat, i))]]

\* the result: <<[i |-> 0, det |-> ...], [i |-> 1, det |-> ...], ...>>
MinorDets(colorMap) ==
  LET ct == ColoredTriangles(colorMap)
      n == Len(ct)
  IN IF n <= 1 THEN <<>>
     ELSE LET mat == SignedMatrix(ct)
          IN [i \in 1..n |-> [i |-> i - 1, det |-> determinant(MinorOf(mat, i))]]

\* computeMinorDets, evaluated once for each map of TabledMaps
MinorDetsTable == [m \in TabledMaps |-> MinorDets(m)]

computeMinorDets(colorMap) ==
  IF colorMap \in TabledMaps THEN MinorDetsTable[colorMap] ELSE MinorDets(colorMap)

\* the test on the length alone
allNonZeroLength(dets) == Len(dets) > 0

\* dets.length > 0 && dets.every(d => Math.abs(d.det) > 0.0001)
allNonZero(dets) ==
  Len(dets) > 0 /\ \A k \in DOMAIN dets : AboveDetEps(dets[k].det)

(***************************************************************************)
(* computeConnectedComponents: flood fill with an explicit stack.          *)
(***************************************************************************)
\* the flood fill expanding only towards x + 1
NeighborsRightOnly(coord) ==
  << [x |-> coord.x + 1, y |-> coord.y, isUp |-> ~coord.isUp] >>

Neighbors(coord) ==
  IF coord.isUp
    THEN << [x |-> coord.x - 1, y |-> coord.y, isUp |-> FALSE],
            [x |-> coord.x + 1, y |-> coord.y, isUp |-> FALSE],
            [x |-> coord.x, y |-> coord.y - 1, isUp |-> FALSE] >>
    ELSE << [x |-> coord.x - 1, y |-> coord.y, isUp |-> TRUE],
            [x |-> coord.x + 1, y |-> coord.y, isUp |-> TRUE],
            [x |-> coord.x, y |-> coord.y + 1, isUp |-> TRUE] >>

\* the neighbours pushed for one popped key, in order
RECURSIVE PushNeighbors(_, _, _, _, _, _)
PushNeighbors(stack, ns, k, visited, colorMap, targetColor) ==
  IF k > Len(ns) THEN stack
  ELSE LET nKey == getKey(ns[k].x, ns[k].y, ns[k].isUp)
       IN PushNeighbors(
            IF nKey \notin visited /\ MapGetIs(colorMap, nKey, targetColor)
              THEN Append(stack, nKey) ELSE stack,
            ns, k + 1, visited, colorMap, targetColor)

\* the visited set after dfs(startKey, targetColor)
RECURSIVE dfs(_, _, _, _)
dfs(stack, visited, colorMap, targetColor) ==
  IF Len(stack) = 0 THEN visited
  ELSE LET key == stack[Len(stack)]
           rest == SubSeq(stack, 1, Len(stack) - 1)
       IN IF key \in visited THEN dfs(rest, visited, colorMap, targetColor)
          ELSE IF ~MapGetIs(colorMap, key, targetColor)
                 THEN dfs(rest, visited, colorMap, targetColor)
          ELSE LET v2 == visited \cup {key}
               IN dfs(PushNeighbors(rest, Neighbors(parseKey(key)), 1, v2,
                                    colorMap, targetColor),
                      v2, colorMap, targetColor)

RECURSIVE CountLoop(_, _, _, _)
CountLoop(colorMap, k, visited, result) ==
  IF k > Len(colorMap) THEN result
  ELSE LET key == colorMap[k].key
           color == colorMap[k].color
       IN IF color = 0 \/ key \in visited
            THEN CountLoop(colorMap, k + 1, visited, result)
            ELSE CountLoop(colorMap, k + 1,
                           dfs(<<key>>, visited, colorMap, color),
                           IF color = 1 THEN [result EXCEPT !.white = @ + 1]
                           ELSE IF color = 2 THEN [result EXCEPT !.black = @ + 1]
                           ELSE IF color = 3 THEN [result EXCEPT !.gray = @ + 1]
                           ELSE result)

\* every coloured entry counted as a component of its own (no visited set)
ConnectedComponentsPerCell(colorMap) ==
  [ white |-> Len(SelectSeq(colorMap, LAMBDA e : e.color = 1)),
    black |-> Len(SelectSeq(colorMap, LAMBDA e : e.color = 2)),
    gray |-> Len(SelectSeq(colorMap, LAMBDA e : e.color = 3)) ]

ConnectedComponents(colorMap) ==
  CountLoop(colorMap, 1, {}, [white |-> 0, black |-> 0, gray |-> 0])

\* computeConnectedComponents, evaluated once for each map of TabledMaps
ConnectedTable == [m \in TabledMaps |-> ConnectedComponents(m)]

computeConnectedComponents(colorMap) ==
  IF colorMap \in TabledMaps THEN ConnectedTable[colorMap]
  ELSE ConnectedComponents(colorMap)

computePriorityScore(connected) ==
  connected.white * connected.black * connected.gray

(***************************************************************************)
(* Candidate generation.                                                   *)
(***************************************************************************)
\* indexToColors: base-3 digits of index, least significant first
RECURSIVE IndexLoop(_, _, _, _)
IndexLoop(remaining, targetShape, i, newColors) ==
  IF i > Len(targetShape) THEN newColors
  ELSE LET coord == targetShape[i]
           key == getKey(coord.x, coord.y, coord.isUp)
           colorValue == (remaining % 3) + 1
       IN IndexLoop(remaining \div 3, targetShape, i + 1,
                    MapSet(newColors, key, colorValue))

\* the digits of index + 1 in place of those of index
indexToColorsFromOne(index, targetShape) == IndexLoop(index + 1, targetShape, 1, <<>>)

indexToColors(index, targetShape) == IndexLoop(index, targetShape, 1, <<>>)

\* randomizeColors of part_000; rnd[i] is the value of
\* Math.floor(Math.random() * 3) + 1 drawn for the i-th cell of the shape
RECURSIVE RandomLoop(_, _, _, _, _)
RandomLoop(targetShape, currentColors, rnd, i, newColors) ==
  IF i > Len(targetShape) THEN newColors
  ELSE LET coord == targetShape[i]
           key == getKey(coord.x, coord.y, coord.isUp)
       IN IF ~MapHas(currentColors, key) \/ MapGet(currentColors, key) = 0
            THEN RandomLoop(targetShape, currentColors, rnd, i + 1, newColors)
            ELSE RandomLoop(targetShape, currentColors, rnd, i + 1,
                            MapSet(newColors, key, rnd[i]))

randomizeColors(targetShape, currentColors, rnd) ==
  RandomLoop(targetShape, currentColors, rnd, 1, <<>>)

\* randomizeColors of the App build: every cell of the shape is coloured
RECURSIVE RandomLoopApp(_, _, _, _)
RandomLoopApp(targetShape, rnd, i, newColors) ==
  IF i > Len(targetShape) THEN newColors
  ELSE LET coord == targetShape[i]
           key == getKey(coord.x, coord.y, coord.isUp)
       IN RandomLoopApp(targetShape, rnd, i + 1, MapSet(newColors, key, rnd[i]))

randomizeColorsApp(targetShape, rnd) == RandomLoopApp(targetShape, rnd, 1, <<>>)

\* every outcome of the random draws of one call
Draws(targetShape) == [1..Len(targetShape) -> 1..3]

\* every map one call of randomizeColors can return
RandomOutcomes(targetShape, currentColors) ==
  {randomizeColors(targetShape, currentColors, rnd) : rnd \in Draws(targetShape)}

RandomOutcomesApp(targetShape) ==
  {randomizeColorsApp(targetShape, rnd) : rnd \in Draws(targetShape)}


(***************************************************************************)
(* State.                                                                  *)
(***************************************************************************)
VARIABLES
  build,           \* which of the two builds of App runs
  colors,          \* useState colors: Map<string, Color>
  shape,           \* useState shape: TriangleCoord[]
  searchStatus,    \* useState searchStatus, as a record of what the text shows
  isSearching,     \* useState isSearching
  searchMode,      \* useState searchMode
  searchProgress,  \* useState searchProgress, in hundredths of a percent
  stopSearchRef,   \* useRef stopSearchRef.current
  foundResults,    \* useState foundResults
  sessions,        \* the closures created by handleSearch, oldest first
  alerts,          \* alert('Invalid JSON') dialogs shown so far
  nEdits,          \* editing operations performed so far
  nSearches        \* searches started so far

vars == <<build, colors, shape, searchStatus, isSearching, searchMode,
          searchProgress, stopSearchRef, foundResults, sessions, alerts,
          nEdits, nSearches>>

\* the triangles of the canvas that are clicked
ClickCells == Cells

Status(kind) == [kind |-> kind]

Init ==
  /\ build \in {"part_000", "App"}
  /\ colors = <<>>
  /\ shape = <<>>
  /\ searchStatus = Status("")
  /\ isSearching = FALSE
  /\ searchMode = "exhaustive"
  /\ searchProgress = RInt(0)
  /\ stopSearchRef = FALSE
  /\ foundResults = <<>>
  /\ sessions = <<>>
  /\ alerts = 0
  /\ nEdits = 0
  /\ nSearches = 0

(***************************************************************************)
(* Editing operations.                                                     *)
(***************************************************************************)
\* the click written into the Map object itself (prev.set / prev.delete) in place
\* of a copy: the sessions that captured that object see the change
handleClickInPlace(x, y, isUp) ==
  LET key == getKey(x, y, isUp)
      currentColor == IF MapHas(colors, key) THEN MapGet(colors, key) ELSE 0
      nextColor == (currentColor + 1) % 4
      changed == IF nextColor = 0 THEN MapDelete(colors, key)
                 ELSE MapSet(colors, key, nextColor)
  IN /\ nEdits < MaxEdits
     /\ colors' = changed
     /\ sessions' = [i \in DOMAIN sessions |->
                       IF sessions[i].seed = colors
                         THEN [sessions[i] EXCEPT !.seed = changed]
                         ELSE sessions[i]]
     /\ nEdits' = nEdits + 1
     /\ UNCHANGED <<build, alerts, shape, searchStatus, isSearching, searchMode,
                    searchProgress, stopSearchRef, foundResults, nSearches>>

handleClick(x, y, isUp) ==
  LET key == getKey(x, y, isUp)
      currentColor == IF MapHas(colors, key) THEN MapGet(colors, key) ELSE 0
      nextColor == (currentColor + 1) % 4
  IN /\ nEdits < MaxEdits
     /\ colors' = IF nextColor = 0 THEN MapDelete(colors, key)
                  ELSE MapSet(colors, key, nextColor)
     /\ nEdits' = nEdits + 1
     /\ UNCHANGED <<build, alerts, shape, searchStatus, isSearching, searchMode,
                    searchProgress, stopSearchRef, foundResults, sessions, nSearches>>

handleClear ==
  /\ nEdits < MaxEdits
  /\ colors' = <<>>
  /\ shape' = <<>>
  /\ searchStatus' = Status("")
  /\ nEdits' = nEdits + 1
  /\ UNCHANGED <<build, alerts, isSearching, searchMode, searchProgress, stopSearchRef,
                 foundResults, sessions, nSearches>>

\* the button is disabled while colors.size === 0
handleSaveShape ==
  /\ nEdits < MaxEdits
  /\ MapSize(colors) # 0
  /\ LET coords == [i \in DOMAIN colors |-> parseKey(colors[i].key)]
     IN /\ shape' = coords
        /\ searchStatus' = [kind |-> "saved", count |-> Len(coords)]
  /\ nEdits' = nEdits + 1
  /\ UNCHANGED <<build, alerts, colors, isSearching, searchMode, searchProgress,
                 stopSearchRef, foundResults, sessions, nSearches>>

(***************************************************************************)
(* handleJsonImport.  The text of the textarea is given by what JSON.parse *)
(* makes of it:                                                            *)
(*   [kind |-> "unparsable"]           JSON.parse throws                   *)
(*   [kind |-> "notArray"]             a value without forEach             *)
(*   [kind |-> "array", items |-> s]   an array; an item is a record with  *)
(*                                     a color and, unless it is malformed,*)
(*                                     a coord                             *)
(***************************************************************************)
\* COLOR_NAMES.indexOf(name): 0-based, -1 when absent
IndexOfColor(name) ==
  IF \E i \in DOMAIN COLOR_NAMES : COLOR_NAMES[i] = name
    THEN (CHOOSE i \in DOMAIN COLOR_NAMES : COLOR_NAMES[i] = name) - 1
    ELSE -1

\* the entries before the one that throws kept, as when the loop writes the state itself
RECURSIVE ImportLoopPartial(_, _, _)
ImportLoopPartial(items, i, newColors) ==
  IF i > Len(items) THEN [thrown |-> FALSE, newColors |-> newColors]
  ELSE IF "coord" \notin DOMAIN items[i] THEN [thrown |-> FALSE, newColors |-> newColors]
  ELSE LET item == items[i]
           key == getKey(item.coord.x, item.coord.y, item.coord.isUp)
           colorIndex == IndexOfColor(item.color)
       IN ImportLoopPartial(items, i + 1,
                            IF colorIndex > 0 THEN MapSet(newColors, key, colorIndex)
                            ELSE newColors)

\* the test colorIndex >= 0 in place of colorIndex > 0: 'transparent' is stored
RECURSIVE ImportLoopStoringTransparent(_, _, _)
ImportLoopStoringTransparent(items, i, newColors) ==
  IF i > Len(items) THEN [thrown |-> FALSE, newColors |-> newColors]
  ELSE IF "coord" \notin DOMAIN items[i] THEN [thrown |-> TRUE]
  ELSE LET item == items[i]
           key == getKey(item.coord.x, item.coord.y, item.coord.isUp)
           colorIndex == IndexOfColor(item.color)
       IN ImportLoopStoringTransparent(items, i + 1,
                     IF colorIndex >= 0 THEN MapSet(newColors, key, colorIndex)
                     ELSE newColors)

\* data.forEach(item => {...}); item.coord.x throws when the item has no coord
RECURSIVE ImportLoop(_, _, _)
ImportLoop(items, i, newColors) ==
  IF i > Len(items) THEN [thrown |-> FALSE, newColors |-> newColors]
  ELSE IF "coord" \notin DOMAIN items[i] THEN [thrown |-> TRUE]
  ELSE LET item == items[i]
           key == getKey(item.coord.x, item.coord.y, item.coord.isUp)
           colorIndex == IndexOfColor(item.color)
       IN ImportLoop(items, i + 1,
                     IF colorIndex > 0 THEN MapSet(newColors, key, colorIndex)
                     ELSE newColors)

\* the outcome of the try block: thrown, or the map given to setColors
ImportOutcome(payload) ==
  IF payload.kind = "unparsable" THEN [thrown |-> TRUE]
  ELSE IF payload.kind = "notArray" THEN [thrown |-> TRUE]
  ELSE ImportLoop(payload.items, 1, <<>>)

\* the texts that are imported
Payloads ==
  { [kind |-> "unparsable"],
    [kind |-> "notArray"],
    [kind |-> "array",
     items |-> << [coord |-> CellA, color |-> "white"],
                  [coord |-> CellB, color |-> "black"],
                  [coord |-> CellC, color |-> "gray"] >>],
    [kind |-> "array",
     items |-> << [coord |-> CellB, color |-> "red"],
                  [coord |-> CellA, color |-> "black"],
                  [coord |-> CellC, color |-> "transparent"] >>],
    [kind |-> "array",
     items |-> << [coord |-> CellC, color |-> "white"],
                  [color |-> "black"] >>] }

handleJsonImport(payload) ==
  LET outcome == ImportOutcome(payload)
  IN /\ nEdits < MaxEdits
     /\ nEdits' = nEdits + 1
     /\ colors' = IF outcome.thrown THEN colors ELSE outcome.newColors
     /\ alerts' = IF outcome.thrown THEN alerts + 1 ELSE alerts
     /\ UNCHANGED <<build, shape, searchStatus, isSearching, searchMode,
                    searchProgress, stopSearchRef, foundResults, sessions, nSearches>>

(***************************************************************************)
(* The result table of part_000.                                           *)
(***************************************************************************)
\* the result moved out of the table into the editor in place of being copied
applyResultTaking(r) ==
  /\ nEdits < MaxEdits
  /\ nEdits' = nEdits + 1
  /\ r \in DOMAIN foundResults
  /\ colors' = foundResults[r].colors
  /\ foundResults' = [i \in 1..(Len(foundResults) - 1) |->
                        IF i < r THEN foundResults[i] ELSE foundResults[i + 1]]
  /\ UNCHANGED <<build, alerts, shape, searchStatus, isSearching, searchMode,
                 searchProgress, stopSearchRef, sessions, nSearches>>

\* onClick={() => setColors(new Map(result.colors))}
applyResult(r) ==
  /\ nEdits < MaxEdits
  /\ nEdits' = nEdits + 1
  /\ r \in DOMAIN foundResults
  /\ colors' = foundResults[r].colors
  /\ UNCHANGED <<build, alerts, shape, searchStatus, isSearching, searchMode,
                 searchProgress, stopSearchRef, foundResults, sessions, nSearches>>

\* {foundResults.length > 0 && <button onClick={() => setFoundResults([])}>}
clearResults ==
  /\ nEdits < MaxEdits
  /\ nEdits' = nEdits + 1
  /\ Len(foundResults) > 0
  /\ foundResults' = <<>>
  /\ UNCHANGED <<build, alerts, colors, shape, searchStatus, isSearching, searchMode,
                 searchProgress, stopSearchRef, sessions, nSearches>>

\* the mode select of part_000, disabled while isSearching
setSearchMode(mode) ==
  /\ build = "part_000"
  /\ ~isSearching
  /\ mode # searchMode
  /\ searchMode' = mode
  /\ UNCHANGED <<build, alerts, colors, shape, searchStatus, isSearching, searchProgress,
                 stopSearchRef, foundResults, sessions, nEdits, nSearches>>


(***************************************************************************)
(* handleRandomize; the button is disabled while isSearching.              *)
(***************************************************************************)
handleRandomizeRejected ==
  /\ ~isSearching
  /\ Len(shape) = 0 /\ MapSize(colors) = 0
  /\ searchStatus' = Status("needShape")
  /\ UNCHANGED <<build, alerts, colors, shape, isSearching, searchMode, searchProgress,
                 stopSearchRef, foundResults, sessions, nEdits, nSearches>>

\* the draws of Math.random followed for the button: one colour for every cell,
\* and the three colours in rotation
RandomizeDraws(targetShape) ==
  {[i \in 1..Len(targetShape) |-> ((i * step + first) % 3) + 1] :
     step \in 0..1, first \in 0..2}

handleRandomizeDone ==
  /\ ~isSearching
  /\ ~(Len(shape) = 0 /\ MapSize(colors) = 0)
  /\ nEdits < MaxEdits
  /\ nEdits' = nEdits + 1
  /\ LET targetShape ==
           IF Len(shape) = 0 THEN [i \in DOMAIN colors |-> parseKey(colors[i].key)]
           ELSE shape
     IN /\ shape' = targetShape
        /\ searchStatus' = IF Len(shape) = 0
                             THEN [kind |-> "saved", count |-> Len(targetShape)]
                             ELSE searchStatus
        /\ \E rnd \in RandomizeDraws(targetShape) :
              colors' = IF build = "part_000"
                          THEN randomizeColors(targetShape, colors, rnd)
                          ELSE randomizeColorsApp(targetShape, rnd)
  /\ UNCHANGED <<build, alerts, isSearching, searchMode, searchProgress, stopSearchRef,
                 foundResults, sessions, nSearches>>


handleRandomize == handleRandomizeRejected \/ handleRandomizeDone

(***************************************************************************)
(* Search sessions.  handleSearch creates a closure (targetShape, the      *)
(* colors of the render it ran in, results, counters) and schedules its    *)
(* step function with requestAnimationFrame.  A session record holds the   *)
(* closure's variables, scheduled (a requestAnimationFrame callback of the *)
(* session is pending), and history fields that no code reads:             *)
(*   status           how the chain of callbacks ended, "Running" before   *)
(*   published        the lists the session passed to setFoundResults      *)
(*   chunks           chunks of candidates the session has processed       *)
(*   visited          the indices exhaustiveStep has processed, in order   *)
(*   cancelRequested  handleStopSearch ran while the session was running   *)
(*   lateChunks       chunks processed after that request                  *)
(*   flagAtStart      stopSearchRef.current as handleSearch found it       *)
(***************************************************************************)
\* {!isSearching ? <button onClick={handleSearch}> : <button onClick={handleStopSearch}>}
SearchButtonAlways == TRUE
SearchButtonShown == ~isSearching

StopButtonShown == isSearching

\* if (stopSearchRef.current), the first statement of every step function
StopNeverObserved == FALSE
StopObserved == stopSearchRef

NewSession(mode, targetShape, seed) ==
  [ mode |-> mode,
    targetShape |-> targetShape,
    seed |-> seed,
    results |-> <<>>,
    total |-> Pow(3, Len(targetShape)),
    currentIndex |-> 0,
    attempts |-> 0,
    evaluated |-> 0,
    scheduled |-> TRUE,
    status |-> "Running",
    published |-> <<>>,
    chunks |-> 0,
    visited |-> <<>>,
    cancelRequested |-> FALSE,
    lateChunks |-> 0,
    flagAtStart |-> stopSearchRef ]

\* the check placed after the resets of handleSearch
handleSearchRejectedAfterResets ==
  /\ SearchButtonShown
  /\ Len(shape) = 0 /\ MapSize(colors) = 0
  /\ stopSearchRef' = FALSE
  /\ foundResults' = <<>>
  /\ searchStatus' = Status("needShape")
  /\ UNCHANGED <<build, alerts, colors, shape, isSearching, searchMode, searchProgress,
                 sessions, nEdits, nSearches>>

\* if (shape.length === 0 && colors.size === 0) { setSearchStatus(...); return }
handleSearchRejected ==
  /\ SearchButtonShown
  /\ Len(shape) = 0 /\ MapSize(colors) = 0
  /\ searchStatus' = Status("needShape")
  /\ UNCHANGED <<build, alerts, colors, shape, isSearching, searchMode, searchProgress,
                 stopSearchRef, foundResults, sessions, nEdits, nSearches>>

\* a closure whose chain of callbacks has ended is unreachable: only the
\* sessions with a pending callback are kept when a new one is created
LiveSessions == SelectSeq(sessions, LAMBDA sess : sess.scheduled)

\* the shape derived from the colours whether or not a shape is saved
TargetShapeFromColors(sh, cols) == [i \in DOMAIN cols |-> parseKey(cols[i].key)]

\* targetShape = shape, or Array.from(colors.keys()).map(parseKey) when shape is empty
TargetShapeOf(sh, cols) ==
  IF Len(sh) = 0 THEN [i \in DOMAIN cols |-> parseKey(cols[i].key)] ELSE sh

\* handleSearch without setFoundResults([])
handleSearchStartedKeepingResults ==
  /\ SearchButtonShown
  /\ ~(Len(shape) = 0 /\ MapSize(colors) = 0)
  /\ nSearches < MaxSearches
  /\ nSearches' = nSearches + 1
  /\ LET targetShape == TargetShapeOf(shape, colors)
     IN /\ shape' = targetShape
        /\ sessions' = Append(LiveSessions,
             NewSession(IF build = "App" THEN "App" ELSE searchMode,
                        targetShape, colors))
  /\ stopSearchRef' = FALSE
  /\ isSearching' = TRUE
  /\ searchProgress' = IF build = "part_000" THEN RInt(0) ELSE searchProgress
  /\ searchStatus' = Status("searching")
  /\ UNCHANGED <<build, alerts, colors, searchMode, nEdits, foundResults>>

\* handleSearch without stopSearchRef.current = false
handleSearchStartedKeepingFlag ==
  /\ SearchButtonShown
  /\ ~(Len(shape) = 0 /\ MapSize(colors) = 0)
  /\ nSearches < MaxSearches
  /\ nSearches' = nSearches + 1
  /\ LET targetShape == TargetShapeOf(shape, colors)
     IN /\ shape' = targetShape
        /\ sessions' = Append(LiveSessions,
             NewSession(IF build = "App" THEN "App" ELSE searchMode,
                        targetShape, colors))
  /\ isSearching' = TRUE
  /\ foundResults' = IF build = "part_000" THEN <<>> ELSE foundResults
  /\ searchProgress' = IF build = "part_000" THEN RInt(0) ELSE searchProgress
  /\ searchStatus' = Status("searching")
  /\ UNCHANGED <<build, alerts, colors, searchMode, nEdits, stopSearchRef>>

handleSearchStarted ==
  /\ SearchButtonShown
  /\ ~(Len(shape) = 0 /\ MapSize(colors) = 0)
  /\ nSearches < MaxSearches
  /\ nSearches' = nSearches + 1
  /\ LET targetShape == TargetShapeOf(shape, colors)
     IN /\ shape' = targetShape
        /\ sessions' = Append(LiveSessions,
             NewSession(IF build = "App" THEN "App" ELSE searchMode,
                        targetShape, colors))
  /\ stopSearchRef' = FALSE
  /\ isSearching' = TRUE
  /\ foundResults' = IF build = "part_000" THEN <<>> ELSE foundResults
  /\ searchProgress' = IF build = "part_000" THEN RInt(0) ELSE searchProgress
  /\ searchStatus' = Status("searching")
  /\ UNCHANGED <<build, alerts, colors, searchMode, nEdits>>

handleSearch == handleSearchRejected \/ handleSearchStarted

handleStopSearch ==
  /\ StopButtonShown
  /\ stopSearchRef' = TRUE
  /\ sessions' = [i \in DOMAIN sessions |->
                    IF sessions[i].scheduled
                      THEN [sessions[i] EXCEPT !.cancelRequested = TRUE]
                      ELSE sessions[i]]
  /\ UNCHANGED <<build, alerts, colors, shape, searchStatus, isSearching, searchMode,
                 searchProgress, foundResults, nEdits, nSearches>>

(***************************************************************************)
(* exhaustiveStep.                                                         *)
(***************************************************************************)
Min(a, b) == IF a < b THEN a ELSE b

\* for (i = 0; i < batchSize && currentIndex < total; i++, currentIndex++) {...}
\* the result: currentIndex and results after the loop, and the indices it processed
RECURSIVE ExhaustiveLoop(_, _, _, _, _, _, _)
ExhaustiveLoop(i, batchSize, currentIndex, total, targetShape, results, visited) ==
  IF ~(i < batchSize /\ currentIndex < total)
    THEN [currentIndex |-> currentIndex, results |-> results, visited |-> visited]
    ELSE LET testColors == indexToColors(currentIndex, targetShape)
             dets == computeMinorDets(testColors)
         IN ExhaustiveLoop(i + 1, batchSize, currentIndex + 1, total, targetShape,
              IF allNonZero(dets)
                THEN Append(results,
                       [ colors |-> testColors,
                         dets |-> dets,
                         attempt |-> currentIndex + 1,
                         connected |-> computeConnectedComponents(testColors) ])
                ELSE results,
              Append(visited, currentIndex))

\* the index advanced once more after the loop: one candidate skipped per chunk
ExhaustiveBatchSkipping(batchSize, sess) ==
  LET after == ExhaustiveLoop(0, batchSize, sess.currentIndex, sess.total,
                              sess.targetShape, sess.results, sess.visited)
  IN [after EXCEPT !.currentIndex = Min(sess.total, @ + 1)]

\* the loop run on a results list that starts empty in every chunk
ExhaustiveBatchFreshResults(batchSize, sess) ==
  ExhaustiveLoop(0, batchSize, sess.currentIndex, sess.total, sess.targetShape,
                 <<>>, sess.visited)

ExhaustiveBatch(batchSize, sess) ==
  ExhaustiveLoop(0, batchSize, sess.currentIndex, sess.total, sess.targetShape,
                 sess.results, sess.visited)

\* the stop branch without its return: the callback stays scheduled
CancelStillScheduled(s, statusRec) ==
  /\ searchStatus' = statusRec
  /\ foundResults' = IF build = "part_000" THEN sessions[s].results ELSE foundResults
  /\ isSearching' = FALSE
  /\ sessions' = [sessions EXCEPT ![s].status = "Cancelled",
                                  ![s].published =
                                     IF build = "part_000"
                                       THEN Append(@, sessions[s].results)
                                       ELSE @]
  /\ UNCHANGED <<build, alerts, colors, shape, searchMode, searchProgress, stopSearchRef,
                 nEdits, nSearches>>

\* the stop branch with setFoundResults([]) in place of setFoundResults([...results])
CancelDroppingResults(s, statusRec) ==
  /\ searchStatus' = statusRec
  /\ foundResults' = IF build = "part_000" THEN <<>> ELSE foundResults
  /\ isSearching' = FALSE
  /\ sessions' = [sessions EXCEPT ![s].scheduled = FALSE,
                                  ![s].status = "Cancelled",
                                  ![s].published =
                                     IF build = "part_000" THEN Append(@, <<>>) ELSE @]
  /\ UNCHANGED <<build, alerts, colors, shape, searchMode, searchProgress, stopSearchRef,
                 nEdits, nSearches>>

\* if (stopSearchRef.current) {...; setFoundResults([...results]); setIsSearching(false); return}
Cancel(s, statusRec) ==
  /\ searchStatus' = statusRec
  /\ foundResults' = IF build = "part_000" THEN sessions[s].results ELSE foundResults
  /\ isSearching' = FALSE
  /\ sessions' = [sessions EXCEPT ![s].scheduled = FALSE,
                                  ![s].status = "Cancelled",
                                  ![s].published =
                                     IF build = "part_000"
                                       THEN Append(@, sessions[s].results)
                                       ELSE @]
  /\ UNCHANGED <<build, alerts, colors, shape, searchMode, searchProgress, stopSearchRef,
                 nEdits, nSearches>>

\* if (currentIndex < total) { requestAnimationFrame(exhaustiveStep) } else {...}
RequestsNoFrame(more) == FALSE
RequestsFrame(more) == more

Late(sess) == IF sess.cancelRequested THEN sess.lateChunks + 1 ELSE sess.lateChunks

exhaustiveStep(s) ==
  LET sess == sessions[s]
  IN /\ sess.scheduled /\ sess.mode = "exhaustive"
     /\ IF StopObserved
          THEN Cancel(s, [ kind |-> "cancelled", processed |-> sess.currentIndex,
                           total |-> sess.total, found |-> Len(sess.results) ])
          ELSE LET batchSize == Min(ExhaustiveBatchSize, sess.total - sess.currentIndex)
                   after == ExhaustiveBatch(batchSize, sess)
                   progress == Norm(after.currentIndex * 100, sess.total)
                   more == after.currentIndex < sess.total
               IN /\ sessions' = [sessions EXCEPT
                        ![s].currentIndex = after.currentIndex,
                        ![s].results = after.results,
                        ![s].visited = after.visited,
                        ![s].chunks = @ + 1,
                        ![s].lateChunks = Late(sess),
                        ![s].scheduled = RequestsFrame(more),
                        ![s].status = IF more THEN "Running" ELSE "Completed",
                        ![s].published = IF more THEN @ ELSE Append(@, after.results)]
                  /\ IF more
                       THEN /\ searchProgress' = progress
                            /\ searchStatus' =
                                 [ kind |-> "progress", processed |-> after.currentIndex,
                                   total |-> sess.total, found |-> Len(after.results) ]
                            /\ UNCHANGED <<foundResults, isSearching>>
                       ELSE /\ searchStatus' =
                                 [ kind |-> "completed", total |-> sess.total,
                                   found |-> Len(after.results) ]
                            /\ foundResults' = after.results
                            /\ isSearching' = FALSE
                            /\ searchProgress' = RInt(100)
                  /\ UNCHANGED <<build, alerts, colors, shape, searchMode, stopSearchRef,
                                 nEdits, nSearches>>


(***************************************************************************)
(* searchStep of part_000 (randomized mode).                               *)
(***************************************************************************)
\* Step 1: for (i = 0; i < batchSize; i++) { attempts++; candidates.push(...) }
\* drawn[i] is what the i-th call randomizeColors(targetShape, colors) returned
GenerateCandidates(sess, drawn) ==
  [i \in 1..BatchSize |->
     LET testColors == drawn[i]
         connected == computeConnectedComponents(testColors)
     IN [ colors |-> testColors,
          connected |-> connected,
          priority |-> computePriorityScore(connected),
          attempt |-> sess.attempts + i ]]

\* Step 2: candidates.sort((a, b) => a.priority - b.priority), a stable sort
RECURSIVE InsertByPriority(_, _)
InsertByPriority(sorted, c) ==
  IF Len(sorted) = 0 THEN <<c>>
  ELSE IF sorted[Len(sorted)].priority <= c.priority THEN Append(sorted, c)
  ELSE Append(InsertByPriority(SubSeq(sorted, 1, Len(sorted) - 1), c),
              sorted[Len(sorted)])

RECURSIVE SortLoop(_, _, _)
SortLoop(cands, k, sorted) ==
  IF k > Len(cands) THEN sorted
  ELSE SortLoop(cands, k + 1, InsertByPriority(sorted, cands[k]))

\* the chunk left in the order of generation
SortByGeneration(cands) == cands

\* a sort that keeps only the candidate of lowest priority
SortByPriorityFirstOnly(cands) == SubSeq(SortLoop(cands, 1, <<>>), 1, 1)

SortByPriority(cands) == SortLoop(cands, 1, <<>>)

\* step 3 numbering a result by its place in the sorted chunk
RECURSIVE EvaluateLoopByPosition(_, _, _)
EvaluateLoopByPosition(cands, k, results) ==
  IF k > Len(cands) THEN results
  ELSE LET dets == computeMinorDets(cands[k].colors)
           first == CHOOSE a \in {cands[i].attempt : i \in DOMAIN cands} :
                      \A i \in DOMAIN cands : a <= cands[i].attempt
       IN EvaluateLoopByPosition(cands, k + 1,
            IF allNonZero(dets)
              THEN Append(results,
                     [ colors |-> cands[k].colors,
                       dets |-> dets,
                       attempt |-> first + k - 1,
                       connected |-> cands[k].connected ])
              ELSE results)

\* Step 3: for (const candidate of candidates) { evaluated++; ... results.push(...) }
RECURSIVE EvaluateLoop(_, _, _)
EvaluateLoop(cands, k, results) ==
  IF k > Len(cands) THEN results
  ELSE LET dets == computeMinorDets(cands[k].colors)
       IN EvaluateLoop(cands, k + 1,
            IF allNonZero(dets)
              THEN Append(results,
                     [ colors |-> cands[k].colors,
                       dets |-> dets,
                       attempt |-> cands[k].attempt,
                       connected |-> cands[k].connected ])
              ELSE results)

\* the results list after one chunk, for one outcome of its random draws
ChunkOf(sess, drawn) ==
  EvaluateLoop(SortByPriority(GenerateCandidates(sess, drawn)), 1, sess.results)

\* every value the results list can have after one more chunk
ChunkResults(sess) ==
  {ChunkOf(sess, drawn) :
     drawn \in [1..BatchSize -> RandomOutcomes(sess.targetShape, sess.seed)]}

\* the text written with the counters as they were before the chunk
RandomProgressBeforeChunk(generated, found) ==
  [kind |-> "progress", generated |-> generated - BatchSize, found |-> found]

\* setSearchStatus(`探索中... 生成${attempts}件, 発見${results.length}件 (${elapsed}s)`)
RandomProgress(generated, found) ==
  [kind |-> "progress", generated |-> generated, found |-> found]

\* evaluated++ placed after the loop of step 3: once for every chunk
ChunkCountersOncePerChunk(sess) ==
  [attempts |-> sess.attempts + BatchSize, evaluated |-> sess.evaluated + 1]

\* attempts++ for each of the batchSize candidates generated in step 1,
\* evaluated++ for each candidate of the sorted array in step 3
ChunkCounters(sess) ==
  [attempts |-> sess.attempts + BatchSize, evaluated |-> sess.evaluated + BatchSize]

searchStep(s) ==
  LET sess == sessions[s]
      counters == ChunkCounters(sess)
  IN /\ sess.scheduled /\ sess.mode = "random"
     /\ IF StopObserved
          THEN Cancel(s, [ kind |-> "cancelled", generated |-> sess.attempts,
                           evaluated |-> sess.evaluated, found |-> Len(sess.results) ])
          ELSE /\ sess.chunks < MaxRandomChunks
               /\ Len(sess.results) < MaxFound
               /\ \E results \in ChunkResults(sess) :
                       /\ sessions' = [sessions EXCEPT
                             ![s].attempts = counters.attempts,
                             ![s].evaluated = counters.evaluated,
                             ![s].results = results,
                             ![s].chunks = @ + 1,
                             ![s].lateChunks = Late(sess)]
                       /\ searchStatus' =
                            RandomProgress(counters.attempts, Len(results))
               /\ UNCHANGED <<build, alerts, colors, shape, isSearching, searchMode,
                              searchProgress, stopSearchRef, foundResults, nEdits, nSearches>>

(***************************************************************************)
(* searchStep of the App build: stops at the first passing candidate and   *)
(* at maxAttempts.                                                         *)
(***************************************************************************)
\* for (i = 0; i < batchSize && attempts < maxAttempts; i++) { attempts++; ... return }
\* the result: the attempts made and the passing candidate, if one was found
RECURSIVE AppBatch(_, _, _, _)
AppBatch(i, attempts, targetShape, drawn) ==
  IF ~(i < BatchSize /\ attempts < maxAttempts)
    THEN [attempts |-> attempts, found |-> FALSE]
    ELSE LET testColors == drawn[i + 1]
             dets == computeMinorDets(testColors)
         IN IF allNonZero(dets)
              THEN [attempts |-> attempts + 1, found |-> TRUE, colors |-> testColors]
              ELSE AppBatch(i + 1, attempts + 1, targetShape, drawn)

\* every outcome of one chunk
AppBatchOutcomes(sess) ==
  {AppBatch(0, sess.attempts, sess.targetShape, drawn) :
     drawn \in [1..BatchSize -> RandomOutcomesApp(sess.targetShape)]}

searchStepApp(s) ==
  LET sess == sessions[s]
  IN /\ sess.scheduled /\ sess.mode = "App"
     /\ IF StopObserved
          THEN Cancel(s, [kind |-> "cancelled", attempts |-> sess.attempts])
          ELSE \E after \in AppBatchOutcomes(sess) :
                 LET exhausted == after.attempts >= maxAttempts
                 IN /\ sessions' = [sessions EXCEPT
                          ![s].attempts = after.attempts,
                          ![s].evaluated = after.attempts,
                          ![s].chunks = @ + 1,
                          ![s].lateChunks = Late(sess),
                          ![s].scheduled = ~after.found /\ ~exhausted,
                          ![s].status = IF after.found THEN "Found"
                                        ELSE IF exhausted THEN "Exhausted"
                                        ELSE "Running"]
                    /\ IF after.found
                         THEN /\ colors' = after.colors
                              /\ searchStatus' =
                                   [kind |-> "found", attempts |-> after.attempts]
                              /\ isSearching' = FALSE
                         ELSE IF exhausted
                           THEN /\ searchStatus' =
                                     [kind |-> "exhausted", attempts |-> maxAttempts]
                                /\ isSearching' = FALSE
                                /\ UNCHANGED colors
                           ELSE /\ searchStatus' =
                                     [kind |-> "progress", attempts |-> after.attempts]
                                /\ UNCHANGED <<colors, isSearching>>
                    /\ UNCHANGED <<build, alerts, shape, searchMode, searchProgress,
                                   stopSearchRef, foundResults, nEdits, nSearches>>

(***************************************************************************)
(* The next-state relation.                                                *)
(***************************************************************************)
Next ==
  \/ \E c \in ClickCells : handleClick(c.x, c.y, c.isUp)
  \/ handleClear
  \/ handleSaveShape
  \/ \E payload \in Payloads : handleJsonImport(payload)
  \/ \E r \in DOMAIN foundResults : applyResult(r)
  \/ clearResults
  \/ \E mode \in {"exhaustive", "random"} : setSearchMode(mode)
  \/ handleRandomizeRejected
  \/ handleRandomizeDone
  \/ handleSearchRejected
  \/ handleSearchStarted
  \/ handleStopSearch
  \/ \E s \in DOMAIN sessions : exhaustiveStep(s)
  \/ \E s \in DOMAIN sessions : searchStep(s)
  \/ \E s \in DOMAIN sessions : searchStepApp(s)

Spec == Init /\ [][Next]_vars


\* requestAnimationFrame runs a scheduled exhaustiveStep
FairSpec == Spec /\ WF_vars(\E s \in DOMAIN sessions : exhaustiveStep(s))


(***************************************************************************)
(* Reference definitions for the properties: the full colourings of a      *)
(* shape, the index of a colouring, and principal minors computed by       *)
(* cofactor expansion over the integers.                                   *)
(***************************************************************************)
FullColorings(targetShape) ==
  {[i \in DOMAIN targetShape |->
      [key |-> getKey(targetShape[i].x, targetShape[i].y, targetShape[i].isUp),
       color |-> f[i]]] : f \in [DOMAIN targetShape -> 1..3]}

RECURSIVE ColoringIndex(_)
ColoringIndex(c) ==
  IF Len(c) = 0 THEN 0
  ELSE (c[1].color - 1) + 3 * ColoringIndex(SubSeq(c, 2, Len(c)))

DropAt(seq, i) == SelectIdx(seq, LAMBDA k : k # i)

RECURSIVE Cofactor(_)
Cofactor(m) ==
  IF Len(m) = 0 THEN 1
  ELSE LET rest == DropAt(m, 1)
           Term(j) == (IF j % 2 = 1 THEN 1 ELSE -1) * m[1][j]
                        * Cofactor([r \in DOMAIN rest |-> DropAt(rest[r], j)])
           RECURSIVE Sum(_)
           Sum(j) == IF j = 0 THEN 0 ELSE Term(j) + Sum(j - 1)
       IN Sum(Len(m))

\* the principal minors of the signed matrix of a colouring
PrincipalMinors(colorMap) ==
  LET mat == SignedMatrix(ColoredTriangles(colorMap))
  IN [i \in DOMAIN mat |->
        Cofactor(LET rows == DropAt(mat, i)
                 IN [r \in DOMAIN rows |-> DropAt(rows[r], i)])]

\* the pass predicate: at least two coloured cells and no vanishing principal minor
Passing(colorMap) ==
  /\ Len(ColoredTriangles(colorMap)) >= 2
  /\ \A i \in DOMAIN PrincipalMinors(colorMap) : PrincipalMinors(colorMap)[i] # 0

IsSession(s, mode, status) ==
  sessions[s].mode = mode /\ sessions[s].status = status

(***************************************************************************)
(* C1.  An exhaustive search that reaches Completed publishes exactly the  *)
(* colourings of the shape that pass, each once, in increasing order of    *)
(* index, each with attempt = index + 1.                                   *)
(***************************************************************************)
C1_CompletedPublishesPassing ==
  \A s \in DOMAIN sessions :
    IsSession(s, "exhaustive", "Completed") =>
      /\ Len(sessions[s].published) = 1
      /\ LET list == sessions[s].published[1]
         IN /\ {list[k].colors : k \in DOMAIN list}
                 = {c \in FullColorings(sessions[s].targetShape) : Passing(c)}
            /\ \A k \in DOMAIN list : list[k].attempt = ColoringIndex(list[k].colors) + 1
            /\ \A k, l \in DOMAIN list : k < l => list[k].attempt < list[l].attempt
            /\ foundResults \in {list, <<>>}

\* a completed search over the three cells in a row shows its 12 passing colourings
C1_Witness ==
  \E s \in DOMAIN sessions :
    /\ IsSession(s, "exhaustive", "Completed")
    /\ Len(sessions[s].targetShape) = 3
    /\ Len(foundResults) = 12
    /\ foundResults = sessions[s].published[1]

(***************************************************************************)
(* C2.  The exhaustive search processes the indices 0 .. 3^N - 1 in        *)
(* increasing order, each once, and indexToColors maps them one-to-one     *)
(* onto the full colourings of the shape: the colour of the i-th cell is   *)
(* the i-th base-3 digit of the index, least significant first, plus one.  *)
(***************************************************************************)
C2_IndexOrderAndBijection ==
  \A s \in DOMAIN sessions :
    sessions[s].mode = "exhaustive" =>
      LET sess == sessions[s]
          N == Len(sess.targetShape)
          image == {indexToColors(idx, sess.targetShape) : idx \in 0..(sess.total - 1)}
      IN /\ sess.total = Pow(3, N)
         /\ sess.visited = [i \in 1..sess.currentIndex |-> i - 1]
         /\ sess.currentIndex <= sess.total
         /\ sess.status = "Completed" => sess.currentIndex = sess.total
         /\ \A idx \in 0..(sess.total - 1) :
              LET c == indexToColors(idx, sess.targetShape)
              IN /\ Len(c) = N
                 /\ \A i \in 1..N :
                      /\ parseKey(c[i].key) = sess.targetShape[i]
                      /\ c[i].color = ((idx \div Pow(3, i - 1)) % 3) + 1
         /\ image = FullColorings(sess.targetShape)
         /\ Cardinality(image) = sess.total

\* all 27 indices of a three-cell shape processed in three chunks
C2_Witness ==
  \E s \in DOMAIN sessions :
    /\ IsSession(s, "exhaustive", "Completed")
    /\ Len(sessions[s].visited) = 27
    /\ sessions[s].chunks = 3

(***************************************************************************)
(* C3.  In both modes every result of the result list is a colouring with  *)
(* at least two coloured cells whose principal minors all exceed 1e-4 in   *)
(* absolute value; a candidate that fails the test is never appended.      *)
(***************************************************************************)
ResultLists ==
  {foundResults} \cup {sessions[s].results : s \in DOMAIN sessions}
    \cup UNION {Range(sessions[s].published) : s \in DOMAIN sessions}

C3_ResultsPass ==
  \A list \in ResultLists : \A k \in DOMAIN list :
    LET r == list[k]
        minors == PrincipalMinors(r.colors)
    IN /\ Len(ColoredTriangles(r.colors)) >= 2
       /\ Len(r.dets) = Len(minors)
       /\ \A i \in DOMAIN minors :
            /\ r.dets[i].det = RInt(minors[i])
            /\ AboveDetEps(r.dets[i].det)
            /\ minors[i] # 0

\* a random chunk of which one candidate passed and the other did not
C3_Witness ==
  \E s \in DOMAIN sessions :
    /\ sessions[s].mode = "random"
    /\ sessions[s].evaluated = 2
    /\ Len(sessions[s].results) = 1
    /\ Len(sessions[s].targetShape) = 3

(***************************************************************************)
(* C4.  When cancel is requested while an exhaustive search is Running,    *)
(* before its final chunk, the session ends Cancelled and never Completed, *)
(* with fewer than 3^N indices processed, and the list it publishes is     *)
(* exactly what the chunks before the cancellation accumulated: the        *)
(* passing colourings of index below the processed count, in order.        *)
(***************************************************************************)
C4_CancelKeepsPartialResults ==
  \A s \in DOMAIN sessions :
    sessions[s].mode = "exhaustive" =>
      LET sess == sessions[s]
      IN /\ sess.cancelRequested =>
              \/ sess.status = "Cancelled"
              \/ sess.status = "Running" /\ sess.scheduled /\ stopSearchRef
         /\ sess.status = "Cancelled" =>
              /\ sess.cancelRequested
              /\ sess.currentIndex < sess.total
              /\ sess.published = <<sess.results>>
              /\ {sess.results[k].colors : k \in DOMAIN sess.results}
                   = {c \in FullColorings(sess.targetShape) :
                        Passing(c) /\ ColoringIndex(c) < sess.currentIndex}
              /\ \A k \in DOMAIN sess.results :
                   sess.results[k].attempt = ColoringIndex(sess.results[k].colors) + 1
              /\ \A k, l \in DOMAIN sess.results :
                   k < l => sess.results[k].attempt < sess.results[l].attempt
              /\ foundResults \in {sess.results, <<>>}

\* a search over three cells cancelled after two of its three chunks, results shown
C4_Witness ==
  \E s \in DOMAIN sessions :
    /\ IsSession(s, "exhaustive", "Cancelled")
    /\ sessions[s].currentIndex = 20
    /\ Len(sessions[s].results) > 0
    /\ foundResults = sessions[s].results

(***************************************************************************)
(* C5.  In both modes a session processes at most one chunk after a cancel *)
(* request before it leaves Running, and it has left Running once its      *)
(* chain of callbacks has seen the request.                                *)
(***************************************************************************)
C5_AtMostOneLateChunk ==
  \A s \in DOMAIN sessions :
    /\ sessions[s].lateChunks <= 1
    /\ (sessions[s].cancelRequested /\ ~sessions[s].scheduled)
         => sessions[s].status # "Running"

\* a randomized search cancelled after a chunk
C5_Witness ==
  \E s \in DOMAIN sessions :
    /\ IsSession(s, "random", "Cancelled")
    /\ sessions[s].cancelRequested
    /\ sessions[s].chunks >= 1

(***************************************************************************)
(* C6.  An exhaustive search that is never cancelled reaches Completed,    *)
(* provided its frames keep being delivered, and a completed search has    *)
(* processed all 3^N indices.                                              *)
(***************************************************************************)
ExhaustiveRunning ==
  \E s \in DOMAIN sessions : IsSession(s, "exhaustive", "Running")

ExhaustiveCompleted ==
  \E s \in DOMAIN sessions :
    /\ IsSession(s, "exhaustive", "Completed")
    /\ sessions[s].currentIndex = Pow(3, Len(sessions[s].targetShape))

C6_NeverCancelledCompletes ==
  /\ [](\A s \in DOMAIN sessions :
          IsSession(s, "exhaustive", "Completed") =>
            sessions[s].currentIndex = Pow(3, Len(sessions[s].targetShape)))
  /\ (ExhaustiveRunning ~> (ExhaustiveCompleted \/ stopSearchRef))

\* a search over three cells completed in three chunks without a cancel request
C6_Witness ==
  \E s \in DOMAIN sessions :
    /\ IsSession(s, "exhaustive", "Completed")
    /\ sessions[s].currentIndex = 27
    /\ ~sessions[s].cancelRequested
    /\ ~stopSearchRef

(***************************************************************************)
(* C7.  A randomized search leaves Running only after a cancel request:    *)
(* never because a passing candidate was found, never because an attempt   *)
(* limit was reached.                                                      *)
(***************************************************************************)
C7_OnlyCancelEndsRandomSearch ==
  \A s \in DOMAIN sessions :
    sessions[s].mode \in {"random", "App"} =>
      \/ sessions[s].status = "Running" /\ sessions[s].scheduled
      \/ sessions[s].status = "Cancelled" /\ sessions[s].cancelRequested

(***************************************************************************)
(* C8.  At most one search session is active at any time: no start occurs  *)
(* while a session is running, so no two chains of callbacks are pending   *)
(* together and a pending cancel request is never reset by a start.        *)
(***************************************************************************)
C8_OneActiveSession ==
  /\ Cardinality({s \in DOMAIN sessions : sessions[s].scheduled}) <= 1
  /\ isSearching <=> \E s \in DOMAIN sessions : sessions[s].scheduled
  /\ \A s \in DOMAIN sessions :
       (sessions[s].scheduled /\ sessions[s].cancelRequested) => stopSearchRef

\* a second session with a pending cancel request, after the first one ended
C8_Witness ==
  \E s \in DOMAIN sessions :
    /\ nSearches = 2
    /\ sessions[s].scheduled
    /\ sessions[s].cancelRequested
    /\ sessions[s].chunks >= 1

(***************************************************************************)
(* C9.  A start request made with no saved shape and no coloured cell is   *)
(* rejected before any state change: no session is created or scheduled,   *)
(* the controller stays idle, and the cancellation flag, the saved shape,  *)
(* the colouring and the results shown are unchanged.                      *)
(***************************************************************************)
C9_RejectedStartChangesNothing ==
  [][(handleSearch /\ Len(shape) = 0 /\ MapSize(colors) = 0) =>
       /\ UNCHANGED <<sessions, isSearching, stopSearchRef, shape, colors,
                      foundResults, searchProgress, nSearches>>
       /\ ~isSearching'
       /\ searchStatus' = Status("needShape")]_vars

\* a rejected start that found the flag set and results shown, and left them
C9_Witness ==
  /\ searchStatus = Status("needShape")
  /\ stopSearchRef
  /\ Len(foundResults) > 0
  /\ Len(shape) = 0 /\ MapSize(colors) = 0

(***************************************************************************)
(* C10.  Running is entered only from a non-running state and with a       *)
(* non-empty shape: with no saved shape the session's shape is exactly the *)
(* coloured cells, and it becomes the saved shape; a saved shape is used   *)
(* unchanged.                                                              *)
(***************************************************************************)
C10_StartUsesShape ==
  [][(nSearches' # nSearches) =>
       LET new == sessions'[Len(sessions')]
           colored == {parseKey(colors[i].key) :
                         i \in {j \in DOMAIN colors : colors[j].color \in 1..3}}
       IN /\ ~isSearching /\ isSearching'
          /\ new.status = "Running" /\ new.scheduled
          /\ Len(new.targetShape) > 0
          /\ shape' = new.targetShape
          /\ Len(shape) = 0 =>
               /\ Range(new.targetShape) = colored
               /\ Len(new.targetShape) = Cardinality(colored)
          /\ Len(shape) > 0 => new.targetShape = shape]_vars

\* a second search started on the saved shape while another cell is coloured too
C10_Witness ==
  \E s \in DOMAIN sessions :
    /\ nSearches = 2
    /\ sessions[s].scheduled /\ sessions[s].chunks = 0
    /\ sessions[s].targetShape = shape
    /\ Len(shape) < MapSize(colors)

(***************************************************************************)
(* C11.  The shape and the seed colouring of a running session are fixed   *)
(* at its start: no click, clear, save, import or applied result made      *)
(* while it runs changes the cells it colours or the candidates it         *)
(* generates.                                                              *)
(***************************************************************************)
\* the cells of the session's shape that its seed colours, as keys in shape order
SeedColoredKeys(sess) ==
  LET all == [i \in DOMAIN sess.targetShape |->
                getKey(sess.targetShape[i].x, sess.targetShape[i].y,
                       sess.targetShape[i].isUp)]
  IN SelectSeq(all, LAMBDA k : \E j \in DOMAIN sess.seed :
                                  sess.seed[j].key = k /\ sess.seed[j].color # 0)

\* the cells a session's candidates colour, by mode
SessionKeys(sess) ==
  IF sess.mode = "exhaustive"
    THEN [i \in DOMAIN sess.targetShape |->
            getKey(sess.targetShape[i].x, sess.targetShape[i].y,
                   sess.targetShape[i].isUp)]
    ELSE SeedColoredKeys(sess)

C11_RunningSessionFixed ==
  /\ [](\A s \in DOMAIN sessions :
          sessions[s].mode \in {"exhaustive", "random"} =>
            /\ sessions[s].total = Pow(3, Len(sessions[s].targetShape))
            /\ \A k \in DOMAIN sessions[s].results :
                 MapKeys(sessions[s].results[k].colors) = SessionKeys(sessions[s]))
  /\ [][\A s \in DOMAIN sessions :
          (sessions[s].scheduled /\ nSearches' = nSearches) =>
            /\ s \in DOMAIN sessions'
            /\ sessions'[s].targetShape = sessions[s].targetShape
            /\ sessions'[s].seed = sessions[s].seed
            /\ sessions'[s].total = sessions[s].total
            /\ sessions'[s].mode = sessions[s].mode]_vars

\* a randomized session that found a result for its three cells although the
\* canvas and the saved shape were cleared while it ran
C11_Witness ==
  \E s \in DOMAIN sessions :
    /\ sessions[s].mode = "random" /\ sessions[s].scheduled
    /\ Len(sessions[s].targetShape) = 3
    /\ Len(sessions[s].results) = 1
    /\ Len(shape) = 0 /\ MapSize(colors) = 0

(***************************************************************************)
(* C12.  In randomized mode the priority sort changes only the order of    *)
(* evaluation: for every chunk a session can process, the results appended *)
(* are exactly the generated candidates of the chunk that pass, the same   *)
(* set as when the chunk is evaluated unsorted.                            *)
(***************************************************************************)
\* the chunks a randomized session can generate next, as sequences of drawn maps
NextDraws(sess) == [1..BatchSize -> RandomOutcomes(sess.targetShape, sess.seed)]

\* the randomized sessions whose next callback processes a chunk
RunningRandom ==
  {s \in DOMAIN sessions :
     /\ sessions[s].mode = "random" /\ sessions[s].scheduled /\ ~stopSearchRef
     /\ sessions[s].chunks < MaxRandomChunks
     /\ Len(sessions[s].results) < MaxFound}

C12_SortKeepsPassingSet ==
  \A s \in RunningRandom : \A drawn \in NextDraws(sessions[s]) :
    LET sess == sessions[s]
        cands == GenerateCandidates(sess, drawn)
        before == Len(sess.results)
        sortedRes == ChunkOf(sess, drawn)
        plainRes == EvaluateLoop(cands, 1, sess.results)
        Appended(list) == {list[k] : k \in (before + 1)..Len(list)}
        passing == {[ colors |-> c.colors,
                      dets |-> computeMinorDets(c.colors),
                      attempt |-> c.attempt,
                      connected |-> c.connected ] :
                      c \in {cands[i] : i \in {j \in DOMAIN cands :
                                                 Passing(cands[j].colors)}}}
    IN /\ SubSeq(sortedRes, 1, before) = sess.results
       /\ Appended(sortedRes) = passing
       /\ Appended(sortedRes) = Appended(plainRes)
       /\ Len(sortedRes) = before + Cardinality(passing)
       /\ Len(plainRes) = Len(sortedRes)

\* a chunk whose two candidates both passed and were evaluated in the other order
C12_Witness ==
  \E s \in DOMAIN sessions :
    /\ sessions[s].mode = "random"
    /\ Len(sessions[s].results) = 2
    /\ sessions[s].results[1].attempt = 2
    /\ sessions[s].results[2].attempt = 1

(***************************************************************************)
(* C13.  In randomized mode a stored result carries the generation number  *)
(* of its candidate, the value of the session's generated counter when the *)
(* candidate was drawn, not its place after the sort; the attempt numbers  *)
(* of a result list are pairwise distinct and lie in 1 .. generated.       *)
(***************************************************************************)
C13_AttemptIsGenerationNumber ==
  /\ \A s \in DOMAIN sessions :
       sessions[s].mode = "random" =>
         LET res == sessions[s].results
         IN /\ \A k \in DOMAIN res : res[k].attempt \in 1..sessions[s].attempts
            /\ \A k, l \in DOMAIN res : k # l => res[k].attempt # res[l].attempt
  /\ \A s \in RunningRandom : \A drawn \in NextDraws(sessions[s]) :
       LET sess == sessions[s]
           after == ChunkOf(sess, drawn)
       IN \A k \in (Len(sess.results) + 1)..Len(after) :
            LET nth == after[k].attempt - sess.attempts
            IN /\ nth \in 1..BatchSize
               /\ after[k].colors = drawn[nth]

\* a result found as the third candidate generated, in the second chunk
C13_Witness ==
  \E s \in DOMAIN sessions :
    /\ sessions[s].mode = "random"
    /\ sessions[s].attempts = 4
    /\ Len(sessions[s].results) = 1
    /\ sessions[s].results[1].attempt = 3

(***************************************************************************)
(* C14.  Every candidate generated by a randomized search assigns a colour *)
(* in {white, black, gray} to exactly the cells of the shape that the      *)
(* session's colouring at start colours; the shape cells uncoloured there, *)
(* and the cells outside the shape, are absent from the candidate.         *)
(***************************************************************************)
\* the maps the next call of randomizeColors of a session can return
CandidatesOf(sess) ==
  IF sess.mode = "App" THEN RandomOutcomesApp(sess.targetShape)
  ELSE RandomOutcomes(sess.targetShape, sess.seed)

C14_CandidatesColourSeedCells ==
  \A s \in DOMAIN sessions :
    (sessions[s].mode \in {"random", "App"} /\ sessions[s].scheduled) =>
      \A c \in CandidatesOf(sessions[s]) :
        /\ Range(MapKeys(c)) = Range(SeedColoredKeys(sessions[s]))
        /\ Len(c) = Len(SeedColoredKeys(sessions[s]))
        /\ \A i \in DOMAIN c : c[i].color \in 1..3

(***************************************************************************)
(* C15.  While a randomized search is running, after every chunk the       *)
(* status exposes the updated values of all three counters: candidates     *)
(* generated, candidates evaluated and candidates found.                   *)
(***************************************************************************)
\* a callback of a randomized session of part_000 that processed a chunk
ChunkDone(s) ==
  /\ sessions[s].mode = "random"
  /\ s \in DOMAIN sessions'
  /\ sessions'[s].chunks = sessions[s].chunks + 1

TestedMaps(sess) ==
  IF sess.mode = "exhaustive"
    THEN {indexToColors(idx, sess.targetShape) : idx \in 0..(sess.total - 1)}
    ELSE CandidatesOf(sess)

C16_SmallShapeNeverPasses ==
  /\ Len(ColoredTriangles(colors)) <= 1 => computeMinorDets(colors) = <<>>
  /\ \A s \in DOMAIN sessions :
       LET sess == sessions[s]
       IN Len(sess.targetShape) <= 1 =>
            /\ \A c \in TestedMaps(sess) :
                 /\ computeMinorDets(c) = <<>>
                 /\ ~allNonZero(computeMinorDets(c))
            /\ sess.results = <<>>
            /\ IsSession(s, "exhaustive", "Completed") =>
                 /\ sess.total = 3
                 /\ sess.visited = <<0, 1, 2>>
                 /\ sess.published = << <<>> >>
                 /\ foundResults = <<>>
                 /\ searchStatus.kind = "completed" =>
                      searchStatus = [kind |-> "completed", total |-> 3, found |-> 0]

\* a completed search over one cell
C16_Witness ==
  \E s \in DOMAIN sessions :
    /\ IsSession(s, "exhaustive", "Completed")
    /\ Len(sessions[s].targetShape) = 1
    /\ sessions[s].currentIndex = 3
    /\ searchStatus = [kind |-> "completed", total |-> 3, found |-> 0]

(***************************************************************************)
(* C17.  The import of a malformed payload (text that does not parse, a    *)
(* value that is not an array, an array with an entry without coord) is    *)
(* one atomic rejection: the colouring after it is the colouring before    *)
(* it, and no entry of the payload is applied.                             *)
(***************************************************************************)
Malformed(payload) ==
  \/ payload.kind \in {"unparsable", "notArray"}
  \/ /\ payload.kind = "array"
     /\ \E i \in DOMAIN payload.items : "coord" \notin DOMAIN payload.items[i]

C17_MalformedImportRejected ==
  [][\A payload \in Payloads :
       (handleJsonImport(payload) /\ Malformed(payload)) =>
         /\ colors' = colors
         /\ alerts' = alerts + 1
         /\ UNCHANGED <<shape, foundResults, sessions, searchStatus, isSearching,
                        stopSearchRef>>]_vars

\* a rejected import that left the three cells of an earlier import
C17_Witness ==
  /\ alerts = 1
  /\ MapSize(colors) = 3
  /\ MapGetIs(colors, getKey(1, 0, FALSE), 3)

(***************************************************************************)
(* C18.  Applying a stored result sets the current colouring to the        *)
(* colouring of the result and changes nothing of the engine: the result   *)
(* list with the stored result, the sessions, the status and the flags are *)
(* as before; and no edit of the current colouring (click, import, clear,  *)
(* randomize, save shape, apply) changes a stored result.  Only the button *)
(* that empties the table and the searches write the result list.          *)
(***************************************************************************)
EditStep == nEdits' = nEdits + 1

C18_ApplyIsProjection ==
  /\ [][\A r \in DOMAIN foundResults :
          applyResult(r) =>
            /\ colors' = foundResults[r].colors
            /\ foundResults' = foundResults
            /\ sessions' = sessions
            /\ UNCHANGED <<shape, searchStatus, isSearching, searchProgress,
                           stopSearchRef>>]_vars
  /\ [][(EditStep /\ ~clearResults) =>
          /\ foundResults' = foundResults
          /\ \A s \in DOMAIN sessions : sessions'[s].results = sessions[s].results]_vars

\* a result of a completed exhaustive search applied: the table still holds
\* what the search published
C18_Witness ==
  \E s \in DOMAIN sessions :
    /\ IsSession(s, "exhaustive", "Completed")
    /\ Len(foundResults) > 0
    /\ foundResults = sessions[s].results
    /\ colors = foundResults[1].colors
    /\ colors # sessions[s].seed
    /\ nEdits = MaxEdits

(***************************************************************************)
(* C19.  For every colouring every row of the signed matrix sums to 0: the *)
(* diagonal entry of row i is the sum of relativeColorNum(color_i, color_j)*)
(* over the coloured cells j adjacent to i, the entry (i, j), i # j, is    *)
(* the negated relativeColorNum for adjacent cells and 0 otherwise.        *)
(* Checked for the matrix displayed for the current colouring, for every   *)
(* stored result and for every colouring of the tabled cells in every      *)
(* iteration order.                                                        *)
(***************************************************************************)
RECURSIVE SeqSum(_)
SeqSum(row) == IF Len(row) = 0 THEN 0 ELSE row[1] + SeqSum(Tail(row))

RECURSIVE SetSum(_, _)
SetSum(S, f) ==
  IF S = {} THEN 0
  ELSE LET x == CHOOSE y \in S : TRUE IN f[x] + SetSum(S \ {x}, f)

MatrixAsSpecified(colorMap) ==
  LET ct == ColoredTriangles(colorMap)
      n == Len(ct)
      mat == SignedMatrix(ct)
      Nbrs(i) == {j \in 1..n : j # i /\ areAdjacent(ct[i].coord, ct[j].coord)}
  IN /\ Len(mat) = n
     /\ \A i \in 1..n :
          /\ Len(mat[i]) = n
          /\ SeqSum(mat[i]) = 0
          /\ mat[i][i] = SetSum(Nbrs(i), [j \in 1..n |->
                                   relativeColorNum(ct[i].color, ct[j].color)])
          /\ \A j \in 1..n \ {i} :
               mat[i][j] = IF j \in Nbrs(i)
                             THEN -relativeColorNum(ct[i].color, ct[j].color)
                             ELSE 0

AllTabledAsSpecified == \A m \in TabledMaps : MatrixAsSpecified(m)

C19_RowsSumToZero ==
  /\ MatrixAsSpecified(colors)
  /\ \A r \in DOMAIN foundResults : MatrixAsSpecified(foundResults[r].colors)
  /\ AllTabledAsSpecified

\* the matrix displayed for white, black, gray on the path of three cells
C19_Witness ==
  /\ MapSize(colors) = 3
  /\ SignedMatrix(ColoredTriangles(colors)) =
       << <<1, -1, 0>>, <<-2, 3, -1>>, <<0, -2, 2>> >>


(***************************************************************************)
(* C20.  areAdjacent is symmetric, never relates two cells of the same     *)
(* orientation, and relates the upward cell at (x, y) exactly to the       *)
(* downward cells at (x-1, y), (x+1, y) and (x, y-1).  Checked for all     *)
(* pairs of cells of a grid and for the cells of the current colouring.    *)
(***************************************************************************)
GridRadius == 2

Grid == [x : -GridRadius..GridRadius, y : -GridRadius..GridRadius, isUp : BOOLEAN]

AdjacencyAsSpecified(a, b) ==
  /\ areAdjacent(a, b) = areAdjacent(b, a)
  /\ (a.isUp = b.isUp) => ~areAdjacent(a, b)
  /\ a.isUp =>
       (areAdjacent(a, b) <=>
          /\ ~b.isUp
          /\ <<b.x, b.y>> \in {<<a.x - 1, a.y>>, <<a.x + 1, a.y>>, <<a.x, a.y - 1>>})

GridAsSpecified == \A a \in Grid : \A b \in Grid : AdjacencyAsSpecified(a, b)

ColoredCells == {parseKey(colors[i].key) : i \in DOMAIN colors}

C20_AdjacencySymmetric ==
  /\ \A a \in ColoredCells : \A b \in ColoredCells : AdjacencyAsSpecified(a, b)
  /\ GridAsSpecified

\* the upward cell (0,0) coloured with its two downward neighbours
C20_Witness ==
  /\ {CellA, CellB, CellC} \subseteq ColoredCells
  /\ areAdjacent(CellB, CellA) /\ areAdjacent(CellA, CellB)
  /\ areAdjacent(CellB, CellC) /\ areAdjacent(CellC, CellB)
  /\ ~areAdjacent(CellA, CellC)


(***************************************************************************)
(* C21.  The component counts of a colouring do not depend on the          *)
(* iteration order of its entries: two maps with the same set of           *)
(* (cell, colour) pairs have the same white, black and gray counts.        *)
(* Checked for every pair of tabled maps, and for the current colouring    *)
(* and every stored result against each of their reorderings.              *)
(***************************************************************************)
\* the upward cell (0,0) with its three downward neighbours, every subset
\* of them, every colouring, every iteration order
CellD == [x |-> 0, y |-> -1, isUp |-> FALSE]

StarCells == {CellA, CellB, CellC, CellD}

MapOf(p, f) ==
  [i \in DOMAIN p |-> [key |-> getKey(p[i].x, p[i].y, p[i].isUp), color |-> f[p[i]]]]

AllStarOrderIndependent ==
  \A K \in SUBSET StarCells : \A f \in [K -> 1..3] :
    \A p \in Orderings(K) : \A q \in Orderings(K) :
      ConnectedComponents(MapOf(p, f)) = ConnectedComponents(MapOf(q, f))

SameEntries(m1, m2) == Len(m1) = Len(m2) /\ Range(m1) = Range(m2)

OrderIndependent(colorMap) ==
  \A m \in TabledMaps :
    SameEntries(m, colorMap) =>
      computeConnectedComponents(m) = computeConnectedComponents(colorMap)

AllTabledOrderIndependent == \A m \in TabledMaps : OrderIndependent(m)

C21_CountsOrderIndependent ==
  /\ OrderIndependent(colors)
  /\ \A r \in DOMAIN foundResults :
       /\ OrderIndependent(foundResults[r].colors)
       /\ \A m \in TabledMaps :
            SameEntries(m, foundResults[r].colors) =>
              computeConnectedComponents(m) = foundResults[r].connected
  /\ AllTabledOrderIndependent
  /\ AllStarOrderIndependent

\* a stored result whose map iterates the upward cell before its left
\* neighbour, the reverse of the row, with its counts
C21_Witness ==
  \E r \in DOMAIN foundResults :
    /\ MapSize(foundResults[r].colors) = 2
    /\ foundResults[r].colors[1].key = getKey(CellB.x, CellB.y, CellB.isUp)
    /\ foundResults[r].colors[2].key = getKey(CellA.x, CellA.y, CellA.isUp)
    /\ foundResults[r].connected = [white |-> 1, black |-> 1, gray |-> 0]

(***************************************************************************)
(* C22.  For the upward cell (0,0) white and the downward cell (1,0)       *)
(* black the engine builds the matrix [[1,-1],[-2,2]], returns the minors  *)
(* 2 (index 0) and 1 (index 1) in index order, accepts the candidate and   *)
(* reports the component counts white 1, black 1, gray 0: as functions of  *)
(* the colouring, in every stored result with this colouring, and in the   *)
(* results of every completed exhaustive search over these two cells.      *)
(***************************************************************************)
ScenarioMap ==
  << [key |-> getKey(0, 0, TRUE), color |-> 1],
     [key |-> getKey(1, 0, FALSE), color |-> 2] >>

ScenarioDets == << [i |-> 0, det |-> RInt(2)], [i |-> 1, det |-> RInt(1)] >>

ScenarioCounts == [white |-> 1, black |-> 1, gray |-> 0]

ScenarioComputed ==
  /\ SignedMatrix(ColoredTriangles(ScenarioMap)) = << <<1, -1>>, <<-2, 2>> >>
  /\ computeMinorDets(ScenarioMap) = ScenarioDets
  /\ allNonZero(computeMinorDets(ScenarioMap))
  /\ computeConnectedComponents(ScenarioMap) = ScenarioCounts

C22_TwoCellScenario ==
  /\ ScenarioComputed
  /\ \A r \in DOMAIN foundResults :
       foundResults[r].colors = ScenarioMap =>
         /\ foundResults[r].dets = ScenarioDets
         /\ foundResults[r].connected = ScenarioCounts
  /\ \A s \in DOMAIN sessions :
       (/\ IsSession(s, "exhaustive", "Completed")
        /\ MapKeys(ScenarioMap) = [i \in DOMAIN sessions[s].targetShape |->
                                     getKey(sessions[s].targetShape[i].x,
                                            sessions[s].targetShape[i].y,
                                            sessions[s].targetShape[i].isUp)])
       => \E r \in DOMAIN sessions[s].results :
            sessions[s].results[r].colors = ScenarioMap

\* the candidate stored by an exhaustive search: index 3, reported as attempt 4
C22_Witness ==
  \E r \in DOMAIN foundResults :
    /\ foundResults[r].colors = ScenarioMap
    /\ foundResults[r].dets = ScenarioDets
    /\ foundResults[r].connected = ScenarioCounts
    /\ foundResults[r].attempt = 4


(***************************************************************************)
(* C23.  relativeColorNum(c, c) = 0 for every colour c of 1..3,            *)
(* relativeColorNum(a, b) + relativeColorNum(b, a) = 3 for distinct        *)
(* colours, and every value lies in 0..2: for all pairs of colours, and    *)
(* for the colours of every two cells of the current colouring.            *)
(***************************************************************************)
CyclicDifference(a, b) ==
  /\ relativeColorNum(a, b) \in 0..2
  /\ (a = b) => relativeColorNum(a, b) = 0
  /\ (a # b) => relativeColorNum(a, b) + relativeColorNum(b, a) = 3

AllColoursCyclic == \A a \in 1..3 : \A b \in 1..3 : CyclicDifference(a, b)

C23_RelativeColorCyclic ==
  /\ \A i \in DOMAIN colors : \A j \in DOMAIN colors :
       CyclicDifference(colors[i].color, colors[j].color)
  /\ AllColoursCyclic

\* gray next to white in the displayed matrix: the differences 1 and 2
C23_Witness ==
  \E i \in DOMAIN colors : \E j \in DOMAIN colors :
    /\ colors[i].color = 3 /\ colors[j].color = 1
    /\ areAdjacent(parseKey(colors[i].key), parseKey(colors[j].key))
    /\ SignedMatrix(ColoredTriangles(colors))[i][j] = -1
    /\ SignedMatrix(ColoredTriangles(colors))[j][i] = -2


(***************************************************************************)
(* C24.  In randomized mode every chunk is evaluated in ascending order of *)
(* the priority score (white count x black count x gray count): for every  *)
(* chunk a session can process, the evaluated sequence holds all the       *)
(* candidates generated for the chunk, the first evaluated has the lowest  *)
(* score of the whole chunk, and the results the chunk appends are in      *)
(* non-decreasing order of the score.                                      *)
(***************************************************************************)
ScoreOf(connected) == connected.white * connected.black * connected.gray

NonDecreasing(scores) ==
  \A i \in DOMAIN scores : \A j \in DOMAIN scores : i < j => scores[i] <= scores[j]

C24_ChunkEvaluatedByPriority ==
  \A s \in RunningRandom : \A drawn \in NextDraws(sessions[s]) :
    LET sess == sessions[s]
        cands == GenerateCandidates(sess, drawn)
        evaluatedSeq == SortByPriority(cands)
        before == Len(sess.results)
        after == EvaluateLoop(evaluatedSeq, 1, sess.results)
    IN /\ Len(cands) = BatchSize
       /\ {cands[i].attempt : i \in DOMAIN cands}
            = (sess.attempts + 1)..(sess.attempts + BatchSize)
       /\ Len(evaluatedSeq) = BatchSize
       /\ Range(evaluatedSeq) = Range(cands)
       /\ \A i \in DOMAIN cands :
            /\ cands[i].priority = ScoreOf(computeConnectedComponents(drawn[i]))
            /\ ScoreOf(evaluatedSeq[1].connected) <= cands[i].priority
       /\ NonDecreasing([i \in DOMAIN evaluatedSeq |-> ScoreOf(evaluatedSeq[i].connected)])
       /\ NonDecreasing([k \in 1..(Len(after) - before) |->
                           ScoreOf(after[before + k].connected)])
       /\ after = ChunkOf(sess, drawn)

\* two results of one chunk: the second generated has score 0 and comes first,
\* the first generated has score 1
C24_Witness ==
  \E s \in DOMAIN sessions :
    /\ sessions[s].mode = "random"
    /\ Len(sessions[s].results) = 2
    /\ ScoreOf(sessions[s].results[1].connected) = 0
    /\ ScoreOf(sessions[s].results[2].connected) = 1
    /\ sessions[s].results[1].attempt > sessions[s].results[2].attempt


(***************************************************************************)
(* C25.  For every colouring the count computeConnectedComponents returns  *)
(* for a colour is the number of maximal connected sets of cells of that   *)
(* colour under areAdjacent: the neighbours the flood fill expands are     *)
(* exactly the cells adjacent by areAdjacent, entries of colour 0 are not  *)
(* traversed and no cell is counted twice.  The components are recomputed  *)
(* as the closure of areAdjacent among the entries of one colour.          *)
(***************************************************************************)
RECURSIVE SameColourClosure(_, _)
SameColourClosure(front, colorMap) ==
  LET next == front \cup
                {j \in DOMAIN colorMap :
                   \E i \in front :
                     /\ colorMap[j].color = colorMap[i].color
                     /\ areAdjacent(parseKey(colorMap[i].key), parseKey(colorMap[j].key))}
  IN IF next = front THEN front ELSE SameColourClosure(next, colorMap)

ComponentsOfColour(colorMap, c) ==
  {SameColourClosure({i}, colorMap) : i \in {k \in DOMAIN colorMap : colorMap[k].color = c}}

CountsByClosure(colorMap) ==
  [ white |-> Cardinality(ComponentsOfColour(colorMap, 1)),
    black |-> Cardinality(ComponentsOfColour(colorMap, 2)),
    gray |-> Cardinality(ComponentsOfColour(colorMap, 3)) ]

CountsAsSpecified(colorMap) ==
  /\ ConnectedComponents(colorMap) = CountsByClosure(colorMap)
  /\ computeConnectedComponents(colorMap) = CountsByClosure(colorMap)

\* Neighbors(a) lists exactly the cells b with areAdjacent(a, b)
NeighborsAreAdjacent ==
  \A a \in Grid :
    /\ \A b \in Range(Neighbors(a)) : areAdjacent(a, b)
    /\ \A b \in Grid : areAdjacent(a, b) => b \in Range(Neighbors(a))
    /\ Cardinality(Range(Neighbors(a))) = 3

\* every subset of the star, every colouring with colour 0 allowed, every order
AllStarCountsAsSpecified ==
  \A K \in SUBSET StarCells : \A f \in [K -> 0..3] : \A p \in Orderings(K) :
    CountsAsSpecified(MapOf(p, f))

C25_CountsAreComponents ==
  /\ CountsAsSpecified(colors)
  /\ \A r \in DOMAIN foundResults :
       foundResults[r].connected = CountsByClosure(foundResults[r].colors)
  /\ \A s \in DOMAIN sessions : \A r \in DOMAIN sessions[s].results :
       sessions[s].results[r].connected = CountsByClosure(sessions[s].results[r].colors)
  /\ NeighborsAreAdjacent
  /\ AllStarCountsAsSpecified

\* the current colouring: three cells in a row of one colour, one component
C25_Witness ==
  /\ MapSize(colors) = 3
  /\ \A i \in DOMAIN colors : colors[i].color = colors[1].color
  /\ computeConnectedComponents(colors).white
       + computeConnectedComponents(colors).black
       + computeConnectedComponents(colors).gray = 1


(***************************************************************************)
(* C26.  Completed and Cancelled are terminal: a session that has reported *)
(* either status has no callback scheduled, and in every later step its    *)
(* status, its processed and generated counters, its chunk count and its   *)
(* result list stay as they are (no chunk of it runs), so Cancelled never  *)
(* becomes Completed or the reverse.  When a new search starts the ended   *)
(* sessions are unreachable; every session that exists afterwards is the   *)
(* new one or one that still had a callback scheduled.                     *)
(***************************************************************************)
Terminal(sess) == sess.status \in {"Completed", "Cancelled"}

C26_TerminalStatusesFinal ==
  /\ [](\A s \in DOMAIN sessions : Terminal(sessions[s]) => ~sessions[s].scheduled)
  /\ [][nSearches' = nSearches =>
          /\ DOMAIN sessions' = DOMAIN sessions
          /\ \A s \in DOMAIN sessions :
               Terminal(sessions[s]) =>
                 /\ sessions'[s].status = sessions[s].status
                 /\ ~sessions'[s].scheduled
                 /\ sessions'[s].currentIndex = sessions[s].currentIndex
                 /\ sessions'[s].attempts = sessions[s].attempts
                 /\ sessions'[s].chunks = sessions[s].chunks
                 /\ sessions'[s].results = sessions[s].results
                 /\ sessions'[s].published = sessions[s].published]_vars
  /\ [][nSearches' # nSearches =>
          \A t \in DOMAIN sessions' :
            \/ t = Len(sessions') /\ sessions'[t].status = "Running"
                 /\ sessions'[t].chunks = 0
            \/ \E s \in DOMAIN sessions :
                 sessions[s].scheduled /\ sessions'[t] = sessions[s]]_vars

\* a cancelled exhaustive session with part of the space processed, and the
\* editor used after it ended
C26_Witness ==
  \E s \in DOMAIN sessions :
    /\ IsSession(s, "exhaustive", "Cancelled")
    /\ sessions[s].currentIndex = 10
    /\ sessions[s].total = 27
    /\ ~sessions[s].scheduled
    /\ ~isSearching
    /\ nEdits = MaxEdits


(***************************************************************************)
(* C27.  A cancel request left from before a search does not affect it:    *)
(* starting a search resets the cancellation flag, so while a session has  *)
(* a callback scheduled the flag is set only if a cancel was requested     *)
(* during that session, and a session ends Cancelled with no chunk         *)
(* processed only if the cancel was requested after its own start.         *)
(***************************************************************************)
C27_StaleCancelIgnored ==
  /\ [](\A s \in DOMAIN sessions :
          /\ (sessions[s].scheduled /\ stopSearchRef) => sessions[s].cancelRequested
          /\ (sessions[s].status = "Cancelled" /\ sessions[s].chunks = 0)
               => sessions[s].cancelRequested)
  /\ [][nSearches' # nSearches =>
          /\ ~stopSearchRef'
          /\ ~sessions'[Len(sessions')].cancelRequested
          /\ sessions'[Len(sessions')].scheduled]_vars

\* a search started while the flag of an earlier cancel was still set has
\* processed its first chunk
C27_Witness ==
  /\ nSearches = 2
  /\ ~stopSearchRef
  /\ \E s \in DOMAIN sessions :
       /\ sessions[s].flagAtStart
       /\ sessions[s].chunks >= 1
       /\ sessions[s].status = "Running"
       /\ ~sessions[s].cancelRequested

(***************************************************************************)
(* C28.  In part_000 starting a search clears the published result list,   *)
(* the list stays empty while the session is Running, and the session      *)
(* publishes its accumulated results exactly once, at the transition to    *)
(* Completed or Cancelled.                                                 *)
(***************************************************************************)
C28_PublishedOnceAtEnd ==
  /\ [](build = "part_000" =>
          \A s \in DOMAIN sessions :
            LET sess == sessions[s]
            IN /\ sess.status = "Running" =>
                    /\ Len(sess.published) = 0
                    /\ sess.scheduled => foundResults = <<>>
               /\ Terminal(sess) => sess.published = <<sess.results>>)
  /\ [][(build = "part_000" /\ nSearches' # nSearches) => foundResults' = <<>>]_vars
  /\ [][(build = "part_000" /\ nSearches' = nSearches) =>
          \A s \in DOMAIN sessions :
            (sessions[s].status = "Running" /\ Terminal(sessions'[s])) =>
              /\ foundResults' = sessions'[s].results
              /\ sessions'[s].published = <<sessions'[s].results>>]_vars

\* the second search since the page was loaded has completed and published:
\* the list was cleared at its start and written once since
C28_Witness ==
  /\ build = "part_000"
  /\ nSearches = 2
  /\ \E s \in DOMAIN sessions :
       /\ IsSession(s, "exhaustive", "Completed")
       /\ Len(sessions[s].results) > 0
       /\ sessions[s].published = <<sessions[s].results>>
       /\ foundResults = sessions[s].results


(***************************************************************************)
(* C29.  During an exhaustive search the processed index never decreases   *)
(* and never exceeds 3^N; each executed chunk advances it by exactly       *)
(* min(batch size, 3^N - processed) and no other step changes it; the      *)
(* reported progress stays within 0..100 percent; and the number of        *)
(* results never exceeds the processed index.  The batch size 1000 of the  *)
(* code is ExhaustiveBatchSize here.                                       *)
(***************************************************************************)
WithinPercent(p) == p[2] > 0 /\ p[1] >= 0 /\ p[1] <= 100 * p[2]

C29_ExhaustiveCounters ==
  /\ [](/\ WithinPercent(searchProgress)
        /\ \A s \in DOMAIN sessions :
             sessions[s].mode = "exhaustive" =>
               /\ sessions[s].total = Pow(3, Len(sessions[s].targetShape))
               /\ sessions[s].currentIndex \in 0..sessions[s].total
               /\ Len(sessions[s].results) <= sessions[s].currentIndex
               /\ (searchStatus.kind = "progress" /\ sessions[s].scheduled) =>
                    /\ searchStatus.processed = sessions[s].currentIndex
                    /\ searchProgress = Norm(sessions[s].currentIndex * 100,
                                             sessions[s].total))
  /\ [][nSearches' = nSearches =>
          \A s \in DOMAIN sessions :
            sessions[s].mode = "exhaustive" =>
              /\ sessions'[s].currentIndex >= sessions[s].currentIndex
              /\ sessions'[s].chunks \in {sessions[s].chunks, sessions[s].chunks + 1}
              /\ sessions'[s].currentIndex =
                   IF sessions'[s].chunks = sessions[s].chunks
                     THEN sessions[s].currentIndex
                     ELSE sessions[s].currentIndex
                            + Min(ExhaustiveBatchSize,
                                  sessions[s].total - sessions[s].currentIndex)]_vars

\* two full chunks of the 27 candidates processed, the third (of 7) to come
C29_Witness ==
  \E s \in DOMAIN sessions :
    /\ IsSession(s, "exhaustive", "Running")
    /\ sessions[s].total = 27
    /\ sessions[s].chunks = 2
    /\ sessions[s].currentIndex = 20
    /\ searchProgress = Norm(2000, 27)


(***************************************************************************)
(* C30.  In randomized mode, at every chunk boundary the evaluated counter *)
(* equals the generated counter and both equal the batch size times the    *)
(* number of chunks executed, and the number of results never exceeds the  *)
(* evaluated counter; the cancellation status reports these values.  The   *)
(* batch size 1000 of the code is BatchSize here.                          *)
(***************************************************************************)
C30_RandomCounters ==
  \A s \in DOMAIN sessions :
    sessions[s].mode = "random" =>
      /\ sessions[s].evaluated = sessions[s].attempts
      /\ sessions[s].attempts = BatchSize * sessions[s].chunks
      /\ Len(sessions[s].results) <= sessions[s].evaluated
      /\ (sessions[s].status = "Cancelled" /\ searchStatus.kind = "cancelled") =>
           /\ searchStatus.generated = sessions[s].attempts
           /\ searchStatus.evaluated = sessions[s].attempts
           /\ searchStatus.found = Len(sessions[s].results)

\* cancelled after two chunks: 4 generated, 4 evaluated, 2 found
C30_Witness ==
  \E s \in DOMAIN sessions :
    /\ IsSession(s, "random", "Cancelled")
    /\ sessions[s].chunks = 2
    /\ Len(sessions[s].results) = 2
    /\ searchStatus = [kind |-> "cancelled", generated |-> 4, evaluated |-> 4, found |-> 2]


(***************************************************************************)
(* C31.  After any sequence of click, import, randomize, apply-result and  *)
(* clear operations every entry of the current colouring has a colour in   *)
(* 1..3 (white, black, gray) and no key occurs twice.  A click takes the   *)
(* cell from uncoloured to white, white to black, black to gray and gray   *)
(* to uncoloured, removing the entry in the last case and leaving the      *)
(* other entries alone; an import that is accepted stores exactly the      *)
(* entries of the payload whose colour is one of the three names.          *)
(***************************************************************************)
ColourAt(m, key) == IF MapHas(m, key) THEN MapGet(m, key) ELSE 0

ValidNames == {"white", "black", "gray"}

NumberOfName(name) ==
  IF name = "white" THEN 1 ELSE IF name = "black" THEN 2 ELSE 3

ClickCycles(cell) ==
  LET key == getKey(cell.x, cell.y, cell.isUp)
      before == ColourAt(colors, key)
      after == ColourAt(colors', key)
  IN /\ after = CASE before = 0 -> 1
                  [] before = 1 -> 2
                  [] before = 2 -> 3
                  [] before = 3 -> 0
     /\ MapHas(colors', key) <=> before # 3
     /\ \A i \in DOMAIN colors :
          colors[i].key # key => ColourAt(colors', colors[i].key) = colors[i].color
     /\ \A i \in DOMAIN colors' :
          colors'[i].key # key => ColourAt(colors, colors'[i].key) = colors'[i].color

ImportKeepsValid(payload) ==
  LET items == payload.items
      Key(i) == getKey(items[i].coord.x, items[i].coord.y, items[i].coord.isUp)
      valid == {i \in DOMAIN items : items[i].color \in ValidNames}
  IN /\ \A e \in DOMAIN colors' :
          \E i \in valid :
            /\ Key(i) = colors'[e].key
            /\ NumberOfName(items[i].color) = colors'[e].color
            /\ \A j \in valid : Key(j) = Key(i) => j <= i
     /\ \A i \in valid : MapHas(colors', Key(i))
     /\ \A i \in DOMAIN items \ valid :
          (\A j \in valid : Key(j) # Key(i)) => ~MapHas(colors', Key(i))

C31_ColoursAlwaysValid ==
  /\ [](/\ \A i \in DOMAIN colors : colors[i].color \in 1..3
        /\ \A i \in DOMAIN colors : \A j \in DOMAIN colors :
             colors[i].key = colors[j].key => i = j)
  /\ [][\A cell \in ClickCells :
          handleClick(cell.x, cell.y, cell.isUp) => ClickCycles(cell)]_vars
  /\ [][\A payload \in Payloads :
          (handleJsonImport(payload) /\ payload.kind = "array" /\ ~Malformed(payload))
            => ImportKeepsValid(payload)]_vars

\* the import of a red, a black and a transparent entry: only the black one is stored
C31_Witness ==
  /\ nEdits = 1
  /\ alerts = 0
  /\ colors = << [key |-> getKey(CellA.x, CellA.y, CellA.isUp), color |-> 2] >>

==============================================================================
